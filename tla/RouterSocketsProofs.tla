------------------------ MODULE RouterSocketsProofs ------------------------
(***************************************************************************)
(* What holds of the sockets of a router for any sockets, clients and      *)
(* request ids, and however calls nest: the table of responses is kept as  *)
(* ActiveResponses says, a goodbye leaves no response behind, unregister   *)
(* leaves nothing attached, and every close is heard as CloseNotice says.  *)
(***************************************************************************)
EXTENDS RouterSockets, FiniteSetTheorems, TLAPS

(***************************************************************************)
(* The table of responses (ActiveResponses), for any clients and ids.      *)
(***************************************************************************)
\* Each response is stored once: the loops over the table that release or
\* synchronise the responses of a client see it once, and its release leaves
\* no second entry behind.
StoredOnce ==
  \A c \in Clients, r \in RequestIds : ~(direct[r] = c /\ <<c, r>> \in keyed)

\* What every step keeps; the type invariant excludes a client named None.
TableInv == TableTypeOK /\ LookupIsExact /\ StoredOnce

LEMMA InitTable == TableInit => TableInv
BY ActiveResponsesAssumption DEF TableInit, TableInv, TableTypeOK, LookupIsExact, StoredOnce, Found, Responses

\* Opening a response: under the id, or beside the one that is moved away.
LEMMA OpenTable ==
  ASSUME TableInv, NEW c \in Clients, NEW r \in RequestIds, Open(c, r)
  PROVE  TableInv'
<1>1. TableTypeOK'
  BY DEF Open, SetActiveResponse, TableInv, TableTypeOK, Responses
<1>2. ASSUME NEW d \in Clients, NEW q \in RequestIds
      PROVE  /\ Found(d, q)' <=> (<<d, q>> \in live)'
             /\ ~(direct[q] = d /\ <<d, q>> \in keyed)'
  <2>1. Found(d, q) <=> <<d, q>> \in live
    BY DEF TableInv, LookupIsExact
  <2>2. ~(direct[q] = d /\ <<d, q>> \in keyed) /\ ~(direct[r] = c) /\ <<c, r>> \notin keyed
    BY DEF TableInv, StoredOnce, Open, Found
  <2>3. CASE direct[r] \in {None, c}
    BY <2>1, <2>2, <2>3, ActiveResponsesAssumption
       DEF Open, SetActiveResponse, Found, TableInv, TableTypeOK
  <2>4. CASE direct[r] \notin {None, c}
    <3>1. direct[r] \in Clients
      BY <2>4 DEF TableInv, TableTypeOK
    <3>2. <<direct[r], r>> \in live /\ <<direct[r], r>> \notin keyed
      BY <3>1 DEF TableInv, LookupIsExact, StoredOnce, Found
    <3>3. QED
      BY <2>1, <2>2, <2>4, <3>1, <3>2, ActiveResponsesAssumption
         DEF Open, SetActiveResponse, Found, TableInv, TableTypeOK
  <2>5. QED
    BY <2>3, <2>4
<1>3. QED
  BY <1>1, <1>2 DEF TableInv, LookupIsExact, StoredOnce

\* Releasing responses deletes their own entries and no other ones.
LEMMA ReleaseTable ==
  ASSUME TableInv, NEW R \in SUBSET live, Release(R)
  PROVE  TableInv'
<1>1. TableTypeOK'
  BY DEF Release, DeleteActiveResponses, TableInv, TableTypeOK, Responses
<1>2. ASSUME NEW d \in Clients, NEW q \in RequestIds
      PROVE  /\ Found(d, q)' <=> (<<d, q>> \in live)'
             /\ ~(direct[q] = d /\ <<d, q>> \in keyed)'
  <2>1. Found(d, q) <=> <<d, q>> \in live
    BY DEF TableInv, LookupIsExact
  <2>2. ~(direct[q] = d /\ <<d, q>> \in keyed)
    BY DEF TableInv, StoredOnce
  <2>3. direct'[q] = IF <<direct[q], q>> \in R THEN None ELSE direct[q]
    BY DEF Release, DeleteActiveResponses
  <2>4. <<d, q>> \in keyed' <=> <<d, q>> \in keyed /\ (<<d, q>> \in R => direct[q] = d)
    BY DEF Release, DeleteActiveResponses
  <2>5. <<d, q>> \in live' <=> <<d, q>> \in live /\ <<d, q>> \notin R
    BY DEF Release
  <2>6. direct'[q] = d <=> direct[q] = d /\ <<d, q>> \notin R
    BY <2>3, ActiveResponsesAssumption
  <2>7. QED
    BY <2>1, <2>2, <2>4, <2>5, <2>6 DEF Found
<1>3. QED
  BY <1>1, <1>2 DEF TableInv, LookupIsExact, StoredOnce

\* For any clients and request ids, a client's lookup finds its own response
\* exactly while it is open, and every response is stored once.
THEOREM TableIsExact == TableSpec => [](TableTypeOK /\ LookupIsExact /\ StoredOnce)
<1>1. TableInv /\ [TableNext]_tableVars => TableInv'
  <2>1. ASSUME TableInv, UNCHANGED tableVars PROVE TableInv'
    BY <2>1 DEF tableVars, TableInv, TableTypeOK, LookupIsExact, StoredOnce, Found
  <2>2. QED
    BY <2>1, OpenTable, ReleaseTable DEF TableNext
<1>2. QED
  BY <1>1, InitTable, PTL DEF TableSpec, TableInv

(***************************************************************************)
(* The router keeps it.                                                    *)
(***************************************************************************)

\* A step of the table, or none.
TableStep == [TableNext]_tableVars

\* Each function of the router that releases responses releases open ones.
LEMMA Releasing ==
  ASSUME NEW R, ReleaseResponses(R)
  PROVE  TableStep
BY DEF ReleaseResponses, Release, TableStep, TableNext

LEMMA CleaningUp ==
  ASSUME NEW s, NEW why, CleanupAttachment(s, why)
  PROVE  TableStep
BY Releasing DEF CleanupAttachment, TableStep

\* Messages and the application open and release responses.
LEMMA PeerStep ==
  ASSUME NEW s \in Sockets, Peer(s)
  PROVE  TableStep
<1>1. ASSUME NEW c \in Clients, NEW r \in RequestIds, OnRequest(s, c, r)
      PROVE  TableStep
  BY <1>1 DEF OnRequest, TableStep, TableNext
<1>2. ASSUME NEW c \in Clients, SessionRelease(s, c)
      PROVE  TableStep
  BY <1>2, Releasing DEF SessionRelease, EndResponses
<1>3. CASE Ping(s) \/ FallSilent(s) \/ Vanish(s)
  BY <1>3 DEF Ping, FallSilent, Vanish, TableStep
<1>4. CASE NativeOpen(s) \/ NativeError(s)
  BY <1>4 DEF NativeOpen, NativeError, TableStep
<1>5. ASSUME NEW why \in Reasons, NativeClose(s, why)
      PROVE  TableStep
  BY <1>5 DEF NativeClose, TableStep
<1>6. QED
  BY <1>1, <1>2, <1>3, <1>4, <1>5 DEF Peer

LEMMA ApplicationStep ==
  ASSUME NEW s \in Sockets, Application(s)
  PROVE  TableStep
<1>1. ASSUME NEW n, AttachClient(s, n)
      PROVE  TableStep
  BY <1>1 DEF AttachClient, TableStep
<1>2. CASE DetachClient(s)
  BY <1>2, CleaningUp DEF DetachClient
<1>3. CASE ForceCloseByApplication(s) \/ CloseByApplication(s)
  BY <1>3 DEF ForceCloseByApplication, CloseByApplication, TableStep
<1>4. QED
  BY <1>1, <1>2, <1>3 DEF Application

\* The innermost call: a listener that is told, a clean-up, or unregister.
LEMMA CallStep ==
  ASSUME RunCall
  PROVE  TableStep
<1> DEFINE s == Head(calls).socket
<1>1. CASE TellNext(s)
  <2>1. CASE CleanupAttachment(s, reason[s])
    BY <2>1, CleaningUp
  <2>2. CASE SettleLoop(s) \/ ResolveOnce(s)
    BY <2>2 DEF SettleLoop, ResolveOnce, TableStep
  <2>3. ASSUME NEW p \in Responses, Disconnect(s, p)
        PROVE  TableStep
    BY <2>3 DEF Disconnect, TableStep
  <2>4. CASE UNCHANGED tableVars
    BY <2>4 DEF TableStep
  <2>5. QED
    BY <1>1, <2>1, <2>2, <2>3, <2>4 DEF TellNext
<1>2. CASE EndDispatch(s) /\ UNCHANGED tableVars
  BY <1>2 DEF TableStep
<1>3. CASE RunCleanup(s)
  BY <1>3, CleaningUp DEF RunCleanup
<1>4. CASE RunForce(s)
  BY <1>4 DEF RunForce, TableStep
<1>5. CASE RunUnregister
  BY <1>5, Releasing DEF RunUnregister, ReleaseAllChannels, TableStep
<1>6. QED
  BY <1>1, <1>2, <1>3, <1>4, <1>5 DEF RunCall, Dispatch

\* Heartbeat and autoReconnect do not touch the table.
LEMMA TimerStep ==
  ASSUME \/ \E s \in Sockets : OpenTimeout(s) \/ CheckPing(s)
         \/ AutoReconnect \/ StopByApplication
         \/ Reconnect \/ FinishAttempt \/ EndLoop
  PROVE  TableStep
BY DEF OpenTimeout, CheckPing, AutoReconnect, StopByApplication, Reconnect, Attempt,
       FinishAttempt, EndLoop, TableStep

LEMMA EveryStep == [Next]_vars => TableStep
<1>1. ASSUME NEW p \in Responses, EndResponse(p)
      PROVE  TableStep
  BY <1>1, Releasing DEF EndResponse, EndResponses
<1>2. CASE CallUnregister \/ ReturnToRouter \/ UNCHANGED vars
  BY <1>2 DEF CallUnregister, ReturnToRouter, vars, TableStep
<1>3. QED
  BY <1>1, <1>2, PeerStep, ApplicationStep, CallStep, TimerStep DEF Next

\* The router implements the table: what messages, goodbyes, unregister and the
\* nesting of close listeners do to it are openings and releases of the table.
THEOREM RouterKeepsTable == Spec => TableSpec
<1>1. Init => TableInit
  BY DEF Init
<1>2. [Next]_vars => [TableNext]_tableVars
  BY EveryStep DEF TableStep
<1>3. QED
  BY <1>1, <1>2, PTL DEF Spec, TableSpec

\* A lookup of the router finds exactly the open response of its client.
THEOREM RouterLookupIsExact == Spec => []LookupIsExact
BY RouterKeepsTable, TableIsExact, PTL

(***************************************************************************)
(* What a filter leaves of a sequence.                                     *)
(***************************************************************************)

\* The place of index i among those of I.
Place(I, i) == Cardinality(I \cap 1 .. i)

LEMMA PlacesDiffer ==
  ASSUME NEW n \in Nat, NEW I \in SUBSET (1 .. n)
  PROVE  /\ Cardinality(I) \in Nat
         /\ \A i \in I : Place(I, i) \in 1 .. Cardinality(I)
         /\ \A i, j \in I : Place(I, i) = Place(I, j) => i = j
         /\ 1 \in I => Place(I, 1) = 1
<1>1. IsFiniteSet(I)
  <2>1. IsFiniteSet(1 .. n)
    BY FS_Interval
  <2>2. QED
    BY <2>1, FS_Subset
<1>2. \A i : IsFiniteSet(I \cap 1 .. i) /\ Cardinality(I \cap 1 .. i) \in Nat
             /\ Cardinality(I \cap 1 .. i) <= Cardinality(I)
  <2> TAKE i
  <2>1. I \cap 1 .. i \in SUBSET I
    OBVIOUS
  <2>2. IsFiniteSet(I \cap 1 .. i) /\ Cardinality(I \cap 1 .. i) <= Cardinality(I)
    BY <1>1, <2>1, FS_Subset
  <2>3. QED
    BY <2>2, FS_CardinalityType
<1>3. Cardinality(I) \in Nat
  BY <1>1, FS_CardinalityType
<1>4. ASSUME NEW i \in I PROVE Place(I, i) \in 1 .. Cardinality(I)
  <2>1. i \in I \cap 1 .. i
    OBVIOUS
  <2>2. Cardinality(I \cap 1 .. i) # 0
    BY <1>2, <2>1, FS_EmptySet
  <2>3. QED
    BY <1>2, <1>3, <2>2 DEF Place
<1>5. ASSUME NEW i \in I, NEW j \in I, i < j PROVE Place(I, i) # Place(I, j)
  <2>1. I \cap 1 .. i \in SUBSET (I \cap 1 .. j)
    BY <1>5
  <2>2. j \in I \cap 1 .. j /\ j \notin I \cap 1 .. i
    BY <1>5
  <2>3. QED
    BY <1>2, <2>1, <2>2, FS_Subset DEF Place
<1>6. ASSUME 1 \in I PROVE Place(I, 1) = 1
  <2>1. I \cap 1 .. 1 = {1}
    BY <1>6
  <2>2. QED
    BY <2>1, FS_Singleton DEF Place
<1>7. \A i, j \in I : i < j \/ j < i \/ i = j
  OBVIOUS
<1>8. QED
  BY <1>3, <1>4, <1>5, <1>6, <1>7

\* Every place up to the number of indices is taken.
LEMMA PlacesAreTaken ==
  ASSUME NEW n \in Nat, NEW I \in SUBSET (1 .. n)
  PROVE  \A k \in 1 .. Cardinality(I) : \E i \in I : Place(I, i) = k
<1> DEFINE f == [i \in I |-> Place(I, i)]
<1>1. f \in Injection(I, 1 .. Cardinality(I))
  BY PlacesDiffer DEF Injection, IsInjective
<1>2. Cardinality(1 .. Cardinality(I)) = Cardinality(I) /\ IsFiniteSet(1 .. Cardinality(I))
  <2>1. Cardinality(I) \in Nat
    BY PlacesDiffer
  <2> DEFINE c == Cardinality(I)
  <2> HIDE DEF c
  <2>2. c \in Nat
    BY <2>1 DEF c
  <2>3. IsFiniteSet(1 .. c) /\ Cardinality(1 .. c) = c
    BY <2>2, FS_Interval
  <2>4. QED
    BY <2>3 DEF c
<1>3. f \in Surjection(I, 1 .. Cardinality(I))
  BY <1>1, <1>2, FS_Injection
<1>4. QED
  BY <1>3 DEF Surjection

LEMMA SubsequenceIs ==
  ASSUME NEW S, NEW q \in Seq(S), NEW I \in SUBSET DOMAIN q
  PROVE  /\ Subsequence(q, I) \in Seq(S)
         /\ ToSet(Subsequence(q, I)) = {q[i] : i \in I}
         /\ 1 \in I => Subsequence(q, I) # <<>> /\ Subsequence(q, I)[1] = q[1]
<1> DEFINE r == Subsequence(q, I)
           c == Cardinality(I)
           at(k) == CHOOSE i \in I : Place(I, i) = k
<1>1. Len(q) \in Nat /\ I \in SUBSET (1 .. Len(q)) /\ DOMAIN q = 1 .. Len(q)
  OBVIOUS
<1>2. c \in Nat
  BY <1>1, PlacesDiffer
<1>3. r = [k \in 1 .. c |-> q[at(k)]]
  BY DEF Subsequence, Place
<1>4. \A k \in 1 .. c : at(k) \in I /\ Place(I, at(k)) = k
  BY <1>1, PlacesAreTaken
<1>5. \A i \in I : Place(I, i) \in 1 .. c /\ at(Place(I, i)) = i
  BY <1>1, <1>4, PlacesDiffer
<1> HIDE DEF r, c, at
<1>6. r \in Seq(S) /\ DOMAIN r = 1 .. c /\ Len(r) = c
  BY <1>1, <1>2, <1>3, <1>4
<1>7. ToSet(r) = {q[i] : i \in I}
  BY <1>3, <1>4, <1>5, <1>6 DEF ToSet
<1>8. ASSUME 1 \in I PROVE r # <<>> /\ r[1] = q[1]
  <2>1. Place(I, 1) = 1
    BY <1>1, <1>8, PlacesDiffer
  <2>2. 1 \in 1 .. c /\ at(1) = 1
    BY <1>5, <1>8, <2>1
  <2>3. QED
    BY <1>3, <1>6, <2>2
<1>9. QED
  BY <1>6, <1>7, <1>8 DEF r

(***************************************************************************)
(* The state of the close listeners, the call stack and the attachments.   *)
(***************************************************************************)

Listeners == {Cleanup, Settle, Watch} \cup {CloseListener(p) : p \in Responses}

Entries ==
  {e \in [listener : Listeners, once : BOOLEAN, late : BOOLEAN] : e.once => e.listener = Watch}

Frames ==
  [do : {"dispatch", "cleanup", "force"}, socket : Sockets]
    \cup {Call("unregister", None), Call("application", None)}

Undos == {UndoAttach(s) : s \in Sockets} \cup {UndoLoop}

RouterTypes ==
  /\ live \subseteq Responses
  /\ readyState \in [Sockets -> ReadyStates]
  /\ told \subseteq Sockets
  /\ listeners \in [Sockets -> Seq(Entries)]
  /\ turn \in [Sockets -> Seq(Entries)]
  /\ spent \in [Sockets -> SUBSET Entries]
  /\ reason \in [Sockets -> Reasons]
  /\ attached \subseteq Sockets
  /\ heartbeat \in [Sockets -> {"off", "opening", "watching"}]
  /\ undo \in Seq(Undos)
  /\ unregistered \in BOOLEAN
  /\ ref \in [Responses -> Sockets \cup {None}]
  /\ loop \in {"none", "waiting", "settled", "sleeping", "ended"}
  /\ latest \in Sockets \cup {None}
  /\ stopped \in BOOLEAN
  /\ calls \in Seq(Frames)

\* A dispatch of s is on the call stack.
DispatchOf(q, s) == Call("dispatch", s) \in ToSet(q)
Dispatching(s) == DispatchOf(calls, s)

\* What a dispatch leaves to do, and has done, belongs to one on the stack, and
\* its socket was told.
TurnInv ==
  \A s \in Sockets :
    /\ turn[s] # <<>> \/ spent[s] # {} => Dispatching(s)
    /\ Dispatching(s) => s \in told

\* An attachment listens first of all; a response listens to the socket it is
\* bound to.
ListInv ==
  /\ \A s \in Sockets : s \in attached <=> Cleanup \in Names(listeners[s])
  /\ \A s \in attached : listeners[s] # <<>> /\ listeners[s][1] = FirstEntry(Cleanup)
  /\ \A s \in Sockets, p \in Responses :
       CloseListener(p) \in Names(listeners[s]) <=> ref[p] = s
  /\ \A p \in Responses : ref[p] # None => p \in live

\* While listeners are told the attachment is the next one, as long as it is
\* there; once it was told of a goodbye no response is bound any more.
OrderInv ==
  /\ \A s \in attached :
       Dispatching(s) => turn[s] # <<>> /\ Head(turn[s]) = FirstEntry(Cleanup)
  /\ \A s \in Sockets :
       reason[s] = "goodbye" /\ Cleanup \in {e.listener : e \in spent[s]}
       => \A p \in Responses : ref[p] # s
  /\ left = {}

\* An unregister that goes on has a clean-up of s before it.
CleansUp(q, s) ==
  \E i, j \in DOMAIN q :
    /\ i < j
    /\ q[i] = Call("cleanup", s)
    /\ q[j] = Call("unregister", None)

\* unregister will find what it has to undo; once it is done, nothing is left.
UndoInv ==
  /\ \A s \in attached :
       (~unregistered /\ UndoAttach(s) \in ToSet(undo)) \/ CleansUp(calls, s)
  /\ unregistered => live = {}
  /\ \A s \in Sockets : heartbeat[s] # "off" => s \in attached
  /\ loop = "none" => latest = None /\ ~stopped /\ UndoLoop \notin ToSet(undo)
  /\ loop # "none" /\ ~stopped /\ ~unregistered => UndoLoop \in ToSet(undo)
  /\ loop \in {"waiting", "settled"} => latest # None
  /\ latest # None /\ readyState[latest] # "closed" => ~stopped /\ ~unregistered

RouterInv == RouterTypes /\ TurnInv /\ ListInv /\ OrderInv /\ UndoInv

-----------------------------------------------------------------------------
(* Lists of listeners.                                                     *)

LEMMA ListenersDiffer ==
  /\ Cleanup # Settle /\ Cleanup # Watch /\ Settle # Watch
  /\ \A p : CloseListener(p) \notin {Cleanup, Settle, Watch}
  /\ \A p, q : CloseListener(p) = CloseListener(q) => p = q
BY DEF Cleanup, Settle, Watch, CloseListener

\* r is what is left of list q without the listeners of L.
Without(q, r, L) ==
  /\ r \in Seq(Entries)
  /\ ToSet(r) = {e \in ToSet(q) : e.listener \notin L}
  /\ q # <<>> /\ q[1].listener \notin L => r # <<>> /\ r[1] = q[1]

LEMMA NamesAre ==
  ASSUME NEW q \in Seq(Entries)
  PROVE  Names(q) = {e.listener : e \in ToSet(q)}
BY DEF Names, ToSet

LEMMA EmptyHasNone ==
  ASSUME NEW q \in Seq(Entries)
  PROVE  ToSet(q) = {} <=> q = <<>>
<1>1. q # <<>> => 1 \in DOMAIN q
  OBVIOUS
<1>2. QED
  BY <1>1 DEF ToSet

\* removeEventListener of each of L.
LEMMA Removing ==
  ASSUME NEW q \in Seq(Entries), NEW L
  PROVE  Without(q, removeEventListeners(q, L), L)
<1> DEFINE I == {i \in DOMAIN q : q[i].listener \notin L}
           r == Subsequence(q, I)
<1>1. /\ r \in Seq(Entries)
      /\ ToSet(r) = {q[i] : i \in I}
      /\ 1 \in I => r # <<>> /\ r[1] = q[1]
  BY SubsequenceIs
<1>2. {q[i] : i \in I} = {e \in ToSet(q) : e.listener \notin L}
  BY DEF ToSet
<1>3. q # <<>> => 1 \in DOMAIN q
  OBVIOUS
<1>4. QED
  BY <1>1, <1>2, <1>3 DEF Without, removeEventListeners

LEMMA WithoutNone ==
  ASSUME NEW q \in Seq(Entries)
  PROVE  Without(q, q, {})
BY DEF Without

LEMMA WithoutTwice ==
  ASSUME NEW q \in Seq(Entries), NEW r, NEW u, NEW L, NEW M,
         Without(q, r, L), Without(r, u, M)
  PROVE  Without(q, u, L \cup M)
BY DEF Without

\* addEventListener of a listener that is not listed.
LEMMA Adding ==
  ASSUME NEW q \in Seq(Entries), NEW s, NEW l \in Listeners, l \notin Names(q)
  PROVE  LET r == addEventListener(s, q, l, FALSE) IN
           /\ r \in Seq(Entries)
           /\ ToSet(r) = ToSet(q) \cup {Entry(s, l, FALSE)}
           /\ Entry(s, l, FALSE).listener = l
           /\ q # <<>> => r # <<>> /\ r[1] = q[1]
<1> DEFINE e == Entry(s, l, FALSE)
           r == Append(q, e)
<1>1. e \in Entries /\ e.listener = l
  BY DEF Entry, Entries
<1> HIDE DEF e
<1>2. r \in Seq(Entries) /\ Len(r) = Len(q) + 1 /\ r[Len(q) + 1] = e
      /\ \A i \in 1 .. Len(q) : r[i] = q[i]
  BY <1>1
<1>3. ToSet(r) = ToSet(q) \cup {e}
  BY <1>2 DEF ToSet
<1>4. q # <<>> => r # <<>> /\ r[1] = q[1]
  BY <1>2
<1>5. QED
  BY <1>1, <1>2, <1>3, <1>4 DEF addEventListener, e

-----------------------------------------------------------------------------
(* The call stack.                                                         *)

LEMMA Pushing ==
  ASSUME NEW S, NEW q \in Seq(S), NEW f \in S
  PROVE  <<f>> \o q \in Seq(S) /\ ToSet(<<f>> \o q) = {f} \cup ToSet(q)
<1> DEFINE r == <<f>> \o q
<1>1. r \in Seq(S) /\ Len(r) = Len(q) + 1 /\ r[1] = f
      /\ \A i \in 1 .. Len(q) : r[i + 1] = q[i]
  OBVIOUS
<1>2. \A i \in 2 .. Len(r) : i - 1 \in 1 .. Len(q) /\ r[i] = q[i - 1]
  BY <1>1
<1> HIDE DEF r
<1>3. ToSet(r) \subseteq {f} \cup ToSet(q)
  BY <1>1, <1>2 DEF ToSet
<1>4. ToSet(q) \subseteq ToSet(r) /\ f \in ToSet(r)
  <2>1. \A i \in DOMAIN q : i + 1 \in DOMAIN r /\ r[i + 1] = q[i]
    BY <1>1
  <2>2. 1 \in DOMAIN r
    BY <1>1
  <2>3. QED
    BY <1>1, <2>1, <2>2 DEF ToSet
<1>5. QED
  BY <1>1, <1>3, <1>4 DEF r

LEMMA Popping ==
  ASSUME NEW S, NEW q \in Seq(S), q # <<>>
  PROVE  /\ Head(q) \in S /\ Tail(q) \in Seq(S)
         /\ ToSet(q) = {Head(q)} \cup ToSet(Tail(q))
<1>1. Tail(q) \in Seq(S) /\ Len(Tail(q)) = Len(q) - 1 /\ Head(q) = q[1]
      /\ \A i \in 1 .. Len(q) - 1 : Tail(q)[i] = q[i + 1]
  OBVIOUS
<1>2. \A i \in 1 .. Len(q) : i = 1 \/ (i - 1 \in 1 .. Len(q) - 1 /\ Tail(q)[i - 1] = q[i])
  BY <1>1
<1>3. ToSet(q) \subseteq {Head(q)} \cup ToSet(Tail(q))
  <2>1. \A i \in DOMAIN q : i = 1 \/ (i - 1 \in DOMAIN Tail(q) /\ Tail(q)[i - 1] = q[i])
    BY <1>1, <1>2
  <2>2. QED
    BY <1>1, <2>1 DEF ToSet
<1>4. ToSet(Tail(q)) \subseteq ToSet(q) /\ Head(q) \in ToSet(q)
  BY <1>1 DEF ToSet
<1>5. QED
  BY <1>1, <1>3, <1>4

LEMMA CleanUpPushed ==
  ASSUME NEW q \in Seq(Frames), NEW f, NEW s, CleansUp(q, s)
  PROVE  CleansUp(<<f>> \o q, s)
<1>1. PICK i \in DOMAIN q, j \in DOMAIN q :
        i < j /\ q[i] = Call("cleanup", s) /\ q[j] = Call("unregister", None)
  BY DEF CleansUp
<1> DEFINE r == <<f>> \o q
<1>2. i + 1 \in DOMAIN r /\ j + 1 \in DOMAIN r /\ r[i + 1] = q[i] /\ r[j + 1] = q[j]
  OBVIOUS
<1>3. i + 1 < j + 1
  BY <1>1
<1>4. QED
  BY <1>1, <1>2, <1>3 DEF CleansUp

LEMMA CleanUpPopped ==
  ASSUME NEW q \in Seq(Frames), q # <<>>, NEW s, CleansUp(q, s), Head(q) # Call("cleanup", s)
  PROVE  CleansUp(Tail(q), s)
<1>1. PICK i \in DOMAIN q, j \in DOMAIN q :
        i < j /\ q[i] = Call("cleanup", s) /\ q[j] = Call("unregister", None)
  BY DEF CleansUp
<1> DEFINE r == Tail(q)
<1>2. i # 1 /\ j # 1
  BY <1>1
<1>3. i - 1 \in DOMAIN r /\ j - 1 \in DOMAIN r /\ r[i - 1] = q[i] /\ r[j - 1] = q[j]
  BY <1>2
<1>4. i - 1 < j - 1
  BY <1>1
<1>5. QED
  BY <1>1, <1>3, <1>4 DEF CleansUp

LEMMA CleanUpAdded ==
  ASSUME NEW q \in Seq(Frames), q # <<>>, NEW s, Head(q) = Call("unregister", None)
  PROVE  CleansUp(<<Call("cleanup", s)>> \o q, s)
<1> DEFINE r == <<Call("cleanup", s)>> \o q
<1>1. 1 \in DOMAIN r /\ 2 \in DOMAIN r /\ r[1] = Call("cleanup", s) /\ r[2] = q[1]
  OBVIOUS
<1>2. QED
  BY <1>1 DEF CleansUp

\* q is the call stack as far as dispatches and the clean-ups of unregister go.
LikeCalls(q) ==
  /\ q \in Seq(Frames)
  /\ \A t \in Sockets : DispatchOf(q, t) <=> Dispatching(t)
  /\ \A t \in Sockets : CleansUp(calls, t) => CleansUp(q, t)

LEMMA LikeItself ==
  ASSUME RouterTypes
  PROVE  LikeCalls(calls)
BY DEF RouterTypes, LikeCalls, Dispatching

LEMMA LikePushed ==
  ASSUME NEW q, LikeCalls(q), NEW f \in Frames, f.do # "dispatch"
  PROVE  LikeCalls(<<f>> \o q)
<1>1. \A t : f # Call("dispatch", t)
  BY DEF Call
<1>2. <<f>> \o q \in Seq(Frames) /\ ToSet(<<f>> \o q) = {f} \cup ToSet(q)
  BY Pushing DEF LikeCalls
<1>3. QED
  BY <1>1, <1>2, CleanUpPushed DEF LikeCalls, DispatchOf

LEMMA LikePopped ==
  ASSUME RouterTypes, calls # <<>>, Head(calls).do \in {"force", "application", "unregister"}
  PROVE  LikeCalls(Tail(calls))
<1>1. \A t : Head(calls) \notin {Call("dispatch", t), Call("cleanup", t)}
  BY DEF Call
<1>2. Tail(calls) \in Seq(Frames) /\ ToSet(calls) = {Head(calls)} \cup ToSet(Tail(calls))
  BY Popping DEF RouterTypes
<1>3. QED
  BY <1>1, <1>2, CleanUpPopped DEF LikeCalls, DispatchOf, Dispatching, RouterTypes

LEMMA LikeRest ==
  ASSUME RouterTypes, InApplication
  PROVE  LikeCalls(Rest)
<1>1. CASE Quiet
  BY <1>1, LikeItself DEF Quiet, Rest
<1>2. CASE ~Quiet
  BY <1>2, LikePopped DEF Quiet, Rest, InApplication
<1>3. QED
  BY <1>1, <1>2

\* The dispatches under way stay as they are.
Keeps ==
  /\ UNCHANGED <<told, turn, spent, reason>>
  /\ \A t \in Sockets : DispatchOf(calls', t) <=> Dispatching(t)

\* That of socket s starts.
Starts(s) ==
  /\ s \notin told /\ told' = told \cup {s}
  /\ turn' = [turn EXCEPT ![s] = listeners[s]]
  /\ \E why \in Reasons : reason' = [reason EXCEPT ![s] = why]
  /\ UNCHANGED spent
  /\ \A t \in Sockets : DispatchOf(calls', t) <=> t = s \/ Dispatching(t)

KeepsOrStarts == Keeps \/ \E s \in Sockets : Starts(s)

\* The clean-ups of unregister that are due stay due.
Cleans ==
  /\ calls' \in Seq(Frames)
  /\ \A t \in Sockets : CleansUp(calls, t) => CleansUp(calls', t)

\* No closed socket opens.
StaysClosed ==
  /\ readyState' \in [Sockets -> ReadyStates]
  /\ \A t \in Sockets : readyState[t] = "closed" => readyState'[t] = "closed"

LEMMA Liking ==
  ASSUME LikeCalls(calls'), UNCHANGED <<told, turn, spent, reason>>
  PROVE  KeepsOrStarts /\ Keeps /\ Cleans
BY DEF LikeCalls, Keeps, Cleans, KeepsOrStarts

LEMMA Starting ==
  ASSUME RouterTypes, NEW s \in Sockets, s \notin told, NEW why \in Reasons, StartDispatch(s, why),
         NEW rest, LikeCalls(rest), calls' = <<Call("dispatch", s)>> \o rest, UNCHANGED spent
  PROVE  KeepsOrStarts /\ Cleans
<1> DEFINE f == Call("dispatch", s)
<1>1. f \in Frames
  BY DEF Call, Frames
<1>2. \A t : f = Call("dispatch", t) => t = s
  BY DEF Call
<1>3. calls' \in Seq(Frames) /\ ToSet(calls') = {f} \cup ToSet(rest)
  BY <1>1, Pushing DEF LikeCalls
<1>4. \A t \in Sockets : DispatchOf(calls', t) <=> t = s \/ Dispatching(t)
  BY <1>2, <1>3 DEF LikeCalls, DispatchOf
<1>5. Starts(s)
  BY <1>4 DEF Starts, StartDispatch
<1>6. Cleans
  BY <1>3, CleanUpPushed DEF LikeCalls, Cleans
<1>7. QED
  BY <1>5, <1>6 DEF KeepsOrStarts

LEMMA Forcing ==
  ASSUME RouterTypes, NEW s \in Sockets, NEW why \in Reasons, NEW rest, LikeCalls(rest),
         ForceClose(s, why, rest)
  PROVE  KeepsOrStarts /\ Cleans /\ StaysClosed /\ readyState'[s] = "closed" /\ UNCHANGED listeners
<1>1. StaysClosed /\ readyState'[s] = "closed" /\ UNCHANGED <<listeners, spent>>
  BY DEF ForceClose, RouterTypes, StaysClosed, ReadyStates
<1>2. CASE s \in told
  BY <1>1, <1>2, Liking DEF ForceClose
<1>3. CASE s \notin told
  BY <1>1, <1>3, Starting DEF ForceClose
<1>4. QED
  BY <1>1, <1>2, <1>3

-----------------------------------------------------------------------------
(* How the lists change.                                                   *)

DispatchTypes ==
  /\ told \subseteq Sockets
  /\ turn \in [Sockets -> Seq(Entries)]
  /\ spent \in [Sockets -> SUBSET Entries]
  /\ reason \in [Sockets -> Reasons]

ListTypes ==
  /\ live \subseteq Responses
  /\ listeners \in [Sockets -> Seq(Entries)]
  /\ attached \subseteq Sockets
  /\ ref \in [Responses -> Sockets \cup {None}]

\* The listeners of L[t] leave the list of t: that of an attachment with the
\* attachment, and those of responses with their binding.
Shrinks(L) ==
  /\ listeners' \in [Sockets -> Seq(Entries)]
  /\ attached' \subseteq attached
  /\ live' \subseteq live
  /\ ref' \in [Responses -> Sockets \cup {None}]
  /\ \A t \in Sockets : Without(listeners[t], listeners'[t], L[t])
  /\ \A t \in Sockets : t \in attached' <=> t \in attached /\ Cleanup \notin L[t]
  /\ \A t \in Sockets, p \in Responses :
       ref'[p] = t <=> ref[p] = t /\ CloseListener(p) \notin L[t]
  /\ \A p \in Responses : ref'[p] # None => p \in live'

LEMMA ListShrinks ==
  ASSUME RouterTypes, ListInv, NEW L, Shrinks(L)
  PROVE  ListTypes' /\ ListInv'
<1>1. ListTypes'
  BY DEF RouterTypes, ListTypes, Shrinks
<1>2. ASSUME NEW t \in Sockets, NEW l
      PROVE  l \in Names(listeners'[t]) <=> l \in Names(listeners[t]) /\ l \notin L[t]
  <2>1. listeners[t] \in Seq(Entries) /\ listeners'[t] \in Seq(Entries)
    BY DEF RouterTypes, Shrinks
  <2>2. ToSet(listeners'[t]) = {e \in ToSet(listeners[t]) : e.listener \notin L[t]}
    BY DEF Shrinks, Without
  <2>3. QED
    BY <2>1, <2>2, NamesAre
<1>3. ASSUME NEW t \in attached'
      PROVE  listeners'[t] # <<>> /\ listeners'[t][1] = FirstEntry(Cleanup)
  <2>1. t \in Sockets /\ t \in attached /\ Cleanup \notin L[t]
    BY DEF RouterTypes, Shrinks
  <2>2. listeners[t] # <<>> /\ listeners[t][1] = FirstEntry(Cleanup)
    BY <2>1 DEF ListInv
  <2>3. listeners[t][1].listener = Cleanup
    BY <2>2 DEF FirstEntry
  <2>4. QED
    BY <2>1, <2>2, <2>3 DEF Shrinks, Without
<1>4. ASSUME NEW t \in Sockets PROVE t \in attached' <=> Cleanup \in Names(listeners'[t])
  BY <1>2 DEF ListInv, Shrinks
<1>5. ASSUME NEW t \in Sockets, NEW p \in Responses
      PROVE  CloseListener(p) \in Names(listeners'[t]) <=> ref'[p] = t
  BY <1>2 DEF ListInv, Shrinks
<1>6. QED
  BY <1>1, <1>3, <1>4, <1>5 DEF ListInv, Shrinks

\* A step that starts no dispatch, and takes attachments and bindings away.
LEMMA DispatchesKept ==
  ASSUME RouterInv, Keeps, UNCHANGED left,
         attached' \subseteq attached, \A p \in Responses : ref'[p] \in {ref[p], None}
  PROVE  DispatchTypes' /\ TurnInv' /\ OrderInv'
<1>1. DispatchTypes'
  BY DEF RouterInv, RouterTypes, DispatchTypes, Keeps
<1>2. TurnInv'
  BY DEF RouterInv, TurnInv, Keeps, Dispatching
<1>3. ASSUME NEW s \in attached', DispatchOf(calls', s)
      PROVE  turn'[s] # <<>> /\ Head(turn'[s]) = FirstEntry(Cleanup)
  BY <1>3 DEF RouterInv, RouterTypes, OrderInv, Keeps
<1>4. ASSUME NEW s \in Sockets, reason'[s] = "goodbye",
             Cleanup \in {e.listener : e \in spent'[s]}
      PROVE  \A p \in Responses : ref'[p] # s
  BY <1>4, RouterSocketsAssumption DEF RouterInv, OrderInv, Keeps
<1>5. OrderInv'
  BY <1>3, <1>4 DEF RouterInv, OrderInv, Dispatching, FirstEntry
<1>6. QED
  BY <1>1, <1>2, <1>5

\* A dispatch starts: with the attachment, if there is one.
LEMMA DispatchStarts ==
  ASSUME RouterInv, NEW s \in Sockets, Starts(s), UNCHANGED <<left, attached, ref>>
  PROVE  DispatchTypes' /\ TurnInv' /\ OrderInv'
<1>1. DispatchTypes'
  BY DEF RouterInv, RouterTypes, DispatchTypes, Starts
<1>2. ~Dispatching(s) /\ spent[s] = {} /\ spent' = spent
  BY DEF RouterInv, TurnInv, Starts
<1>3. \A t \in Sockets : DispatchOf(calls', t) <=> t = s \/ Dispatching(t)
  BY DEF Starts
<1>4. \A t \in Sockets : turn'[t] = IF t = s THEN listeners[s] ELSE turn[t]
  BY DEF RouterInv, RouterTypes, Starts
<1>5. TurnInv'
  BY <1>2, <1>3, <1>4 DEF RouterInv, TurnInv, Dispatching, Starts
<1>6. ASSUME NEW t \in attached, DispatchOf(calls', t)
      PROVE  turn'[t] # <<>> /\ Head(turn'[t]) = FirstEntry(Cleanup)
  <2>1. CASE t = s
    <3>1. listeners[s] # <<>> /\ listeners[s][1] = FirstEntry(Cleanup)
      BY <2>1 DEF RouterInv, ListInv
    <3>2. QED
      BY <2>1, <3>1, <1>4 DEF RouterInv, RouterTypes
  <2>2. CASE t # s
    BY <2>2, <1>3, <1>4, <1>6 DEF RouterInv, RouterTypes, OrderInv
  <2>3. QED
    BY <2>1, <2>2
<1>7. ASSUME NEW t \in Sockets, reason'[t] = "goodbye",
             Cleanup \in {e.listener : e \in spent'[t]}
      PROVE  \A p \in Responses : ref[p] # t
  <2>1. t # s
    BY <1>2, <1>7
  <2>2. reason'[t] = reason[t]
    BY <2>1 DEF RouterInv, RouterTypes, Starts
  <2>3. QED
    BY <1>2, <1>7, <2>2 DEF RouterInv, OrderInv
<1>8. OrderInv'
  BY <1>6, <1>7 DEF RouterInv, OrderInv, Dispatching, FirstEntry
<1>9. QED
  BY <1>1, <1>5, <1>8

\* A socket that no dispatch is about is used again, for an attachment or none.
LEMMA DispatchesRenewed ==
  ASSUME RouterInv, NEW s \in Sockets, ~Dispatching(s), told' = told \ {s},
         UNCHANGED <<turn, spent, reason, left, ref>>, attached' \subseteq attached \cup {s},
         \A t \in Sockets : DispatchOf(calls', t) <=> Dispatching(t)
  PROVE  DispatchTypes' /\ TurnInv' /\ OrderInv'
<1>1. DispatchTypes'
  BY DEF RouterInv, RouterTypes, DispatchTypes
<1>2. TurnInv'
  BY DEF RouterInv, TurnInv, Dispatching
<1>3. ASSUME NEW t \in attached', DispatchOf(calls', t)
      PROVE  turn[t] # <<>> /\ Head(turn[t]) = FirstEntry(Cleanup)
  BY <1>3 DEF RouterInv, RouterTypes, OrderInv
<1>4. OrderInv'
  BY <1>3 DEF RouterInv, OrderInv, Dispatching, FirstEntry
<1>5. QED
  BY <1>1, <1>2, <1>4

\* What the invariant says of dispatches and lists.
ListsKept == DispatchTypes /\ ListTypes /\ TurnInv /\ ListInv /\ OrderInv

LEMMA ListsStay ==
  ASSUME RouterInv, KeepsOrStarts, UNCHANGED <<listeners, attached, ref, left, live>>
  PROVE  ListsKept'
<1>1. ListTypes'
  BY DEF RouterInv, RouterTypes, ListTypes
<1>2. ListInv'
  BY DEF RouterInv, ListInv
<1>3. DispatchTypes' /\ TurnInv' /\ OrderInv'
  BY DispatchesKept, DispatchStarts DEF KeepsOrStarts
<1>4. QED
  BY <1>1, <1>2, <1>3 DEF ListsKept

LEMMA ListsShrink ==
  ASSUME RouterInv, Keeps, UNCHANGED left, NEW L, Shrinks(L)
  PROVE  ListsKept'
<1>1. ListTypes' /\ ListInv'
  BY ListShrinks DEF RouterInv
<1>2. \A p \in Responses : ref'[p] \in {ref[p], None}
  BY DEF Shrinks
<1>3. DispatchTypes' /\ TurnInv' /\ OrderInv'
  BY <1>2, DispatchesKept DEF Shrinks
<1>4. QED
  BY <1>1, <1>3 DEF ListsKept

-----------------------------------------------------------------------------
(* What the router's functions do to them.                                 *)

LEMMA Detaching ==
  ASSUME RouterTypes, NEW R \in SUBSET Responses
  PROVE  /\ Detached(R) \in [Sockets -> Seq(Entries)]
         /\ \A t \in Sockets :
              Without(listeners[t], Detached(R)[t], {CloseListener(p) : p \in R})
<1>1. ASSUME NEW t \in Sockets
      PROVE  Without(listeners[t], Detached(R)[t], {CloseListener(p) : p \in R})
  BY Removing DEF RouterTypes, Detached
<1>2. QED
  BY <1>1 DEF Detached, Without

\* Responses are released, with their listeners.
LEMMA ReleaseShrinks ==
  ASSUME RouterInv, NEW R, ReleaseResponses(R), listeners' = Detached(R), UNCHANGED attached
  PROVE  UNCHANGED left /\ \E L : Shrinks(L)
<1> DEFINE C == {CloseListener(p) : p \in R}
           L == [t \in Sockets |-> C]
<1>1. /\ R \subseteq live /\ R \subseteq Responses
      /\ live' = live \ R
      /\ ref' = [p \in Responses |-> IF p \in R THEN None ELSE ref[p]]
      /\ left' = {} /\ left = {}
  BY DEF RouterInv, RouterTypes, OrderInv, ReleaseResponses, Release
<1>2. Cleanup \notin C /\ \A p : CloseListener(p) \in C <=> p \in R
  BY ListenersDiffer
<1> HIDE DEF C
<1>3. \A t \in Sockets : Without(listeners[t], listeners'[t], L[t])
  BY <1>1, Detaching DEF RouterInv, C
<1>4. listeners' \in [Sockets -> Seq(Entries)]
  BY <1>1, Detaching DEF RouterInv
<1>5. \A t \in Sockets, p \in Responses :
        ref'[p] = t <=> ref[p] = t /\ CloseListener(p) \notin L[t]
  BY <1>1, <1>2, RouterSocketsAssumption
<1>6. \A p \in Responses : ref'[p] # None => p \in live'
  BY <1>1 DEF RouterInv, ListInv
<1>7. Shrinks(L)
  BY <1>1, <1>2, <1>3, <1>4, <1>5, <1>6 DEF Shrinks, RouterInv, RouterTypes
<1>8. QED
  BY <1>1, <1>7

LEMMA Forgetting ==
  ASSUME RouterTypes, NEW f
  PROVE  Forgotten(f) \in Seq(Undos) /\ ToSet(Forgotten(f)) = ToSet(undo) \ {f}
<1> DEFINE I == {i \in DOMAIN undo : undo[i] # f}
<1>1. undo \in Seq(Undos)
  BY DEF RouterTypes
<1>2. Subsequence(undo, I) \in Seq(Undos) /\ ToSet(Subsequence(undo, I)) = {undo[i] : i \in I}
  BY <1>1, SubsequenceIs
<1>3. {undo[i] : i \in I} = ToSet(undo) \ {f}
  BY DEF ToSet
<1>4. QED
  BY <1>2, <1>3 DEF Forgotten

\* What the clean-up of an attachment leaves of what unregister has to undo.
CleansOne(s) ==
  /\ attached' = attached \ {s}
  /\ undo' \in Seq(Undos)
  /\ ToSet(undo') \subseteq ToSet(undo)
  /\ \A f \in ToSet(undo) : f # UndoAttach(s) => f \in ToSet(undo')
  /\ heartbeat' \in [Sockets -> {"off", "opening", "watching"}]
  /\ \A t \in Sockets : heartbeat'[t] # "off" => t \in attached'
  /\ live' \subseteq live
  /\ UNCHANGED <<unregistered, left>>

LEMMA CleanupShrinks ==
  ASSUME RouterInv, NEW s \in Sockets, NEW why \in Reasons, CleanupAttachment(s, why)
  PROVE  /\ CleansOne(s)
         /\ \E L : Shrinks(L)
         /\ s \in attached /\ why = "goodbye" => \A p \in Responses : ref'[p] # s
<1>1. CASE s \notin attached
  <2> DEFINE L == [t \in Sockets |-> {}]
  <2>1. UNCHANGED <<live, attached, heartbeat, undo, unregistered, ref, listeners, left>>
    BY <1>1 DEF CleanupAttachment, tableVars, routerVars
  <2>2. \A t \in Sockets : Without(listeners[t], listeners'[t], L[t])
    BY <2>1, WithoutNone DEF RouterInv, RouterTypes
  <2>3. Shrinks(L)
    BY <2>1, <2>2 DEF Shrinks, RouterInv, RouterTypes, ListInv
  <2>4. CleansOne(s)
    BY <1>1, <2>1 DEF CleansOne, RouterInv, RouterTypes, UndoInv
  <2>5. QED
    BY <1>1, <2>3, <2>4
<1>2. CASE s \in attached
  <2> DEFINE B == BoundTo(s, why)
             C == {CloseListener(p) : p \in B}
             L == [t \in Sockets |-> IF t = s THEN C \cup {Cleanup} ELSE C]
  <2>1. /\ ReleaseResponses(B)
        /\ attached' = attached \ {s}
        /\ heartbeat' = [heartbeat EXCEPT ![s] = "off"]
        /\ listeners' = [Detached(B) EXCEPT ![s] = removeEventListeners(@, {Cleanup})]
        /\ undo' = Forgotten(UndoAttach(s))
        /\ UNCHANGED unregistered
    BY <1>2 DEF CleanupAttachment
  <2>2. /\ B \subseteq live /\ B \subseteq Responses
        /\ live' = live \ B
        /\ ref' = [p \in Responses |-> IF p \in B THEN None ELSE ref[p]]
        /\ left' = {} /\ left = {}
    BY <2>1 DEF RouterInv, RouterTypes, OrderInv, ReleaseResponses, Release
  <2>3. why = "goodbye" => B = {p \in live : ref[p] = s}
    BY DEF BoundTo
  <2> HIDE DEF B
  <2>4. Cleanup \notin C /\ \A p : CloseListener(p) # Cleanup /\ (CloseListener(p) \in C <=> p \in B)
    BY ListenersDiffer
  <2> HIDE DEF C
  <2>5. /\ Detached(B) \in [Sockets -> Seq(Entries)]
        /\ \A t \in Sockets : Without(listeners[t], Detached(B)[t], C)
    BY <2>2, Detaching DEF RouterInv, C
  <2>6. Without(Detached(B)[s], removeEventListeners(Detached(B)[s], {Cleanup}), {Cleanup})
    BY <2>5, Removing
  <2>7. ASSUME NEW t \in Sockets PROVE Without(listeners[t], listeners'[t], L[t])
    <3>1. CASE t = s
      <4>1. listeners'[s] = removeEventListeners(Detached(B)[s], {Cleanup})
        BY <2>1, <2>5
      <4>2. Without(listeners[s], listeners'[s], C \cup {Cleanup})
        BY <2>5, <2>6, <4>1, WithoutTwice DEF RouterInv, RouterTypes
      <4>3. QED
        BY <3>1, <4>2
    <3>2. CASE t # s
      BY <3>2, <2>1, <2>5
    <3>3. QED
      BY <3>1, <3>2
  <2>8. listeners' \in [Sockets -> Seq(Entries)]
    BY <2>1, <2>5, <2>6 DEF Without
  <2>9. \A t \in Sockets, p \in Responses :
          ref'[p] = t <=> ref[p] = t /\ CloseListener(p) \notin L[t]
    BY <2>2, <2>4, RouterSocketsAssumption
  <2>10. \A p \in Responses : ref'[p] # None => p \in live'
    BY <2>2 DEF RouterInv, ListInv
  <2>11. \A t \in Sockets : t \in attached' <=> t \in attached /\ Cleanup \notin L[t]
    BY <2>1, <2>4
  <2>12. Shrinks(L)
    BY <2>1, <2>2, <2>7, <2>8, <2>9, <2>10, <2>11 DEF Shrinks, RouterInv, RouterTypes
  <2>13. CleansOne(s)
    BY <2>1, <2>2, Forgetting DEF CleansOne, RouterInv, RouterTypes, UndoInv
  <2>14. ASSUME why = "goodbye", NEW p \in Responses PROVE ref'[p] # s
    BY <2>2, <2>3, <2>14, RouterSocketsAssumption DEF RouterInv, ListInv
  <2>15. QED
    BY <2>12, <2>13, <2>14
<1>3. QED
  BY <1>1, <1>2

\* A new attachment: nobody listens to its socket, and no call is about it.
LEMMA AttachKeeps ==
  ASSUME RouterInv, NEW s \in Sockets, Disposable(s), NEW n \in ReadyStates,
         NEW more \in {<<>>, <<FirstEntry(Settle)>>, <<[FirstEntry(Watch) EXCEPT !.once = TRUE]>>},
         Attach(s, n, more), UNCHANGED <<live, ref, left>>,
         \A t \in Sockets : DispatchOf(calls', t) <=> Dispatching(t)
  PROVE  ListsKept'
<1>1. /\ s \notin attached /\ listeners[s] = <<>> /\ \A p \in Responses : ref[p] # s
      /\ ~Dispatching(s)
  <2>1. \A call \in ToSet(calls) : call.socket # s
    BY DEF Disposable
  <2>2. Call("dispatch", s) \notin ToSet(calls)
    BY <2>1 DEF Call
  <2>3. QED
    BY <2>2 DEF Disposable, Dispatching, DispatchOf
<1>2. DispatchTypes' /\ TurnInv' /\ OrderInv'
  BY <1>1, DispatchesRenewed DEF Attach, NewSocket
<1> DEFINE first == FirstEntry(Cleanup)
           list == <<first>> \o more
<1>3. first \in Entries /\ first.listener = Cleanup
  BY DEF FirstEntry, Entries, Listeners
<1>4. /\ more \in Seq(Entries)
      /\ \A e \in ToSet(more) : e.listener \in {Settle, Watch}
  <2>1. FirstEntry(Settle) \in Entries /\ FirstEntry(Settle).listener = Settle
    BY DEF FirstEntry, Entries, Listeners
  <2>2. [FirstEntry(Watch) EXCEPT !.once = TRUE] \in Entries
        /\ [FirstEntry(Watch) EXCEPT !.once = TRUE].listener = Watch
    BY DEF FirstEntry, Entries, Listeners
  <2>3. <<>> \in Seq(Entries) /\ ToSet(<<>>) = {}
    BY DEF ToSet
  <2>4. \A e \in Entries : <<e>> \in Seq(Entries) /\ ToSet(<<e>>) = {e}
    BY DEF ToSet
  <2>5. QED
    BY <2>1, <2>2, <2>3, <2>4
<1> HIDE DEF first
<1>5. list \in Seq(Entries) /\ ToSet(list) = {first} \cup ToSet(more)
  BY <1>3, <1>4, Pushing
<1>6. list # <<>> /\ list[1] = first
  BY <1>3, <1>4
<1> HIDE DEF list
<1>7. listeners' = [listeners EXCEPT ![s] = list] /\ attached' = attached \cup {s}
  BY DEF Attach, list, first
<1>8. ListTypes'
  BY <1>5, <1>7 DEF RouterInv, RouterTypes, ListTypes
<1>9. /\ Cleanup \in Names(list)
      /\ \A p \in Responses : CloseListener(p) \notin Names(list)
  BY <1>3, <1>4, <1>5, NamesAre, ListenersDiffer
<1>10. \A t \in Sockets : listeners'[t] = IF t = s THEN list ELSE listeners[t]
  BY <1>7 DEF RouterInv, RouterTypes
<1>11. ListInv'
  BY <1>1, <1>6, <1>7, <1>9, <1>10 DEF RouterInv, RouterTypes, ListInv, first
<1>12. QED
  BY <1>2, <1>8, <1>11 DEF ListsKept

\* Listeners that belong to neither an attachment nor a response are removed.
LEMMA DropShrinks ==
  ASSUME RouterInv, NEW s \in Sockets, NEW D \in SUBSET {Settle, Watch},
         listeners' = [listeners EXCEPT ![s] = removeEventListeners(@, D)],
         UNCHANGED <<attached, ref, live>>
  PROVE  \E L : Shrinks(L)
<1> DEFINE L == [t \in Sockets |-> IF t = s THEN D ELSE {}]
<1>1. Cleanup \notin D /\ \A p \in Responses : CloseListener(p) \notin D
  BY ListenersDiffer
<1>2. Without(listeners[s], removeEventListeners(listeners[s], D), D)
  BY Removing DEF RouterInv, RouterTypes
<1>3. \A t \in Sockets : Without(listeners[t], listeners'[t], L[t])
  BY <1>2, WithoutNone DEF RouterInv, RouterTypes
<1>4. listeners' \in [Sockets -> Seq(Entries)]
  BY <1>2 DEF RouterInv, RouterTypes, Without
<1>5. \A t \in Sockets : L[t] \subseteq D
  OBVIOUS
<1> HIDE DEF L
<1>6. Shrinks(L)
  BY <1>1, <1>3, <1>4, <1>5 DEF RouterInv, RouterTypes, ListInv, Shrinks
<1>7. QED
  BY <1>6

\* A response is disconnected; not by a goodbye, of which its attachment was told.
LEMMA DisconnectShrinks ==
  ASSUME RouterInv, NEW s \in Sockets, NEW p \in Responses, Disconnect(s, p), Dispatching(s),
         NEW e, e = Head(turn[s]), e.listener = CloseListener(p), StillListed(s, e)
  PROVE  /\ \E L : Shrinks(L)
         /\ UNCHANGED <<attached, heartbeat, undo, unregistered, loop, live, left>>
<1> DEFINE D == {CloseListener(p)}
           L == [t \in Sockets |-> IF t = s THEN D ELSE {}]
<1>1. Cleanup \notin D /\ \A q \in Responses : CloseListener(q) \in D <=> q = p
  BY ListenersDiffer
<1>2. /\ ref' = [ref EXCEPT ![p] = IF @ = s THEN None ELSE @]
      /\ listeners' = [listeners EXCEPT ![s] = removeEventListeners(@, D)]
      /\ UNCHANGED <<attached, heartbeat, undo, unregistered, loop, live>>
  BY DEF Disconnect, tableVars
<1>3. ref[p] = s
  <2>1. e \in ToSet(listeners[s])
    BY DEF StillListed
  <2>2. CloseListener(p) \in Names(listeners[s])
    BY <2>1, NamesAre DEF RouterInv, RouterTypes
  <2>3. QED
    BY <2>2 DEF RouterInv, ListInv
<1>4. s \notin attached
  <2>1. FirstEntry(Cleanup).listener = Cleanup
    BY DEF FirstEntry
  <2>2. QED
    BY <2>1, <1>1 DEF RouterInv, OrderInv
<1>5. left' = left
  BY <1>3, <1>4 DEF Disconnect, RouterInv, OrderInv
<1> HIDE DEF D
<1>6. Without(listeners[s], removeEventListeners(listeners[s], D), D)
  BY Removing DEF RouterInv, RouterTypes
<1>7. \A t \in Sockets : Without(listeners[t], listeners'[t], L[t])
  BY <1>2, <1>6, WithoutNone DEF RouterInv, RouterTypes
<1>8. listeners' \in [Sockets -> Seq(Entries)]
  BY <1>2, <1>6 DEF RouterInv, RouterTypes, Without
<1>9. ref' \in [Responses -> Sockets \cup {None}]
  BY <1>2 DEF RouterInv, RouterTypes
<1>10. \A t \in Sockets, q \in Responses :
         ref'[q] = t <=> ref[q] = t /\ CloseListener(q) \notin L[t]
  BY <1>1, <1>2, <1>3, RouterSocketsAssumption DEF RouterInv, RouterTypes
<1>11. \A q \in Responses : ref'[q] # None => q \in live'
  BY <1>2 DEF RouterInv, RouterTypes, ListInv
<1>12. \A t \in Sockets : Cleanup \notin L[t]
  BY <1>1
<1> HIDE DEF L
<1>13. Shrinks(L)
  BY <1>2, <1>7, <1>8, <1>9, <1>10, <1>11, <1>12 DEF Shrinks, RouterInv, RouterTypes
<1>14. QED
  BY <1>2, <1>5, <1>13

\* A response moves to the socket its request came on.
LEMMA ConnectKeeps ==
  ASSUME RouterInv, NEW s \in Sockets, NEW p \in Responses, Quiet, ConnectResponse(p, s),
         live \subseteq live', live' \subseteq Responses, p \in live',
         UNCHANGED <<told, turn, spent, reason, attached, calls>>
  PROVE  ListsKept' /\ left' = left
<1> DEFINE l == CloseListener(p)
           d == Detached({p})
<1>1. /\ listeners' = [d EXCEPT ![s] = addEventListener(s, @, l, FALSE)]
      /\ ref' = [ref EXCEPT ![p] = s]
      /\ left' = {} /\ left = {}
  BY DEF ConnectResponse, RouterInv, OrderInv
<1>2. {CloseListener(q) : q \in {p}} = {l}
  OBVIOUS
<1>3. /\ d \in [Sockets -> Seq(Entries)]
      /\ \A t \in Sockets : Without(listeners[t], d[t], {l})
  BY <1>2, Detaching DEF RouterInv
<1>4. l # Cleanup /\ l \in Listeners /\ \A q \in Responses : CloseListener(q) = l <=> q = p
  BY ListenersDiffer DEF Listeners
<1> HIDE DEF d, l
<1>5. ASSUME NEW t \in Sockets
      PROVE  /\ \A m : m \in Names(d[t]) <=> m \in Names(listeners[t]) /\ m # l
             /\ t \in attached => d[t] # <<>> /\ d[t][1] = FirstEntry(Cleanup)
  <2>1. Without(listeners[t], d[t], {l}) /\ listeners[t] \in Seq(Entries) /\ d[t] \in Seq(Entries)
    BY <1>3 DEF RouterInv, RouterTypes
  <2>2. \A m : m \in Names(d[t]) <=> m \in Names(listeners[t]) /\ m # l
    BY <2>1, NamesAre DEF Without
  <2>3. FirstEntry(Cleanup).listener = Cleanup
    BY DEF FirstEntry
  <2>4. t \in attached => d[t] # <<>> /\ d[t][1] = FirstEntry(Cleanup)
    BY <2>1, <2>3, <1>4 DEF Without, RouterInv, ListInv
  <2>5. QED
    BY <2>2, <2>4
<1> DEFINE r == addEventListener(s, d[s], l, FALSE)
           e == Entry(s, l, FALSE)
<1>6. /\ r \in Seq(Entries)
      /\ ToSet(r) = ToSet(d[s]) \cup {e}
      /\ e.listener = l
      /\ d[s] # <<>> => r # <<>> /\ r[1] = d[s][1]
  <2>1. d[s] \in Seq(Entries) /\ l \notin Names(d[s])
    BY <1>3, <1>5
  <2>2. QED
    BY <2>1, <1>4, Adding
<1> HIDE DEF e
<1>7. listeners'[s] = r /\ \A t \in Sockets : t # s => listeners'[t] = d[t]
  BY <1>1, <1>3
<1> HIDE DEF r
<1>8. \A m : m \in Names(listeners'[s]) <=> m \in Names(d[s]) \/ m = l
  <2>1. Names(r) = {x.listener : x \in ToSet(r)} /\ Names(d[s]) = {x.listener : x \in ToSet(d[s])}
    BY <1>3, <1>6, NamesAre
  <2>2. QED
    BY <1>6, <1>7, <2>1
<1>9. ListTypes'
  BY <1>1, <1>3, <1>6 DEF ListTypes, RouterInv, RouterTypes, r
<1>10. \A q \in Responses : ref'[q] = IF q = p THEN s ELSE ref[q]
  BY <1>1 DEF RouterInv, RouterTypes
<1>11. ASSUME NEW t \in Sockets
       PROVE  /\ t \in attached <=> Cleanup \in Names(listeners'[t])
              /\ t \in attached => listeners'[t] # <<>> /\ listeners'[t][1] = FirstEntry(Cleanup)
              /\ \A q \in Responses : CloseListener(q) \in Names(listeners'[t]) <=> ref'[q] = t
  <2>1. \A m : m \in Names(listeners'[t])
               <=> (m \in Names(listeners[t]) /\ m # l) \/ (t = s /\ m = l)
    BY <1>5, <1>7, <1>8
  <2>2. t \in attached <=> Cleanup \in Names(listeners'[t])
    BY <2>1, <1>4 DEF RouterInv, ListInv
  <2>3. t \in attached => listeners'[t] # <<>> /\ listeners'[t][1] = FirstEntry(Cleanup)
    BY <1>5, <1>6, <1>7
  <2>4. ASSUME NEW q \in Responses PROVE CloseListener(q) \in Names(listeners'[t]) <=> ref'[q] = t
    <3>1. CloseListener(q) \in Names(listeners[t]) <=> ref[q] = t
      BY DEF RouterInv, ListInv
    <3>2. QED
      BY <2>1, <3>1, <1>4, <1>10
  <2>5. QED
    BY <2>2, <2>3, <2>4
<1>12. ListInv'
  BY <1>10, <1>11 DEF RouterInv, RouterTypes, ListInv
<1>13. \A t \in Sockets : ~Dispatching(t) /\ spent[t] = {}
  BY DEF RouterInv, TurnInv, Quiet, Dispatching, DispatchOf, ToSet
<1>14. DispatchTypes' /\ TurnInv'
  BY DEF RouterInv, RouterTypes, DispatchTypes, TurnInv, Dispatching
<1>15. OrderInv'
  BY <1>1, <1>13 DEF RouterInv, OrderInv, Dispatching
<1>16. QED
  BY <1>1, <1>9, <1>12, <1>14, <1>15 DEF ListsKept

-----------------------------------------------------------------------------
(* What unregister has to undo.                                            *)

UndoTypes ==
  /\ readyState \in [Sockets -> ReadyStates]
  /\ heartbeat \in [Sockets -> {"off", "opening", "watching"}]
  /\ undo \in Seq(Undos)
  /\ unregistered \in BOOLEAN
  /\ loop \in {"none", "waiting", "settled", "sleeping", "ended"}
  /\ latest \in Sockets \cup {None}
  /\ stopped \in BOOLEAN
  /\ calls \in Seq(Frames)

UndoKept == UndoTypes /\ UndoInv

LEMMA Together ==
  ASSUME ListsKept', UndoKept'
  PROVE  RouterInv'
BY DEF RouterInv, RouterTypes, ListsKept, DispatchTypes, ListTypes, UndoKept, UndoTypes

LEMMA UndosDiffer ==
  /\ \A s : UndoAttach(s) # UndoLoop
  /\ \A s, t : UndoAttach(s) = UndoAttach(t) => s = t
BY DEF UndoAttach, UndoLoop

\* The loop goes on, but neither begins nor waits for another socket.
LoopGoesOn ==
  \/ loop' = loop
  \/ /\ loop # "none" /\ loop' \in {"settled", "sleeping", "ended"}
     /\ loop' = "settled" => loop = "waiting"

\* What is attached loses at most one attachment.
AtMostOne ==
  \/ \E s \in Sockets : CleansOne(s)
  \/ UNCHANGED <<attached, heartbeat, undo, unregistered>> /\ live' \subseteq live

LEMMA UndoStays ==
  ASSUME RouterInv, AtMostOne, LoopGoesOn, StaysClosed, UNCHANGED <<latest, stopped>>,
         calls' \in Seq(Frames),
         \A t \in attached' : CleansUp(calls, t) => CleansUp(calls', t)
  PROVE  UndoKept'
<1>1. UndoTypes'
  BY DEF RouterInv, RouterTypes, UndoTypes, AtMostOne, CleansOne, LoopGoesOn, StaysClosed
<1>2. /\ attached' \subseteq attached
      /\ \A t \in attached' : UndoAttach(t) \in ToSet(undo) => UndoAttach(t) \in ToSet(undo')
      /\ UndoLoop \in ToSet(undo') <=> UndoLoop \in ToSet(undo)
      /\ unregistered' = unregistered /\ live' \subseteq live
      /\ \A t \in Sockets : heartbeat'[t] # "off" => t \in attached'
  BY UndosDiffer DEF AtMostOne, CleansOne, RouterInv, UndoInv
<1>3. \A t \in attached' :
        (~unregistered' /\ UndoAttach(t) \in ToSet(undo')) \/ CleansUp(calls', t)
  BY <1>2 DEF RouterInv, UndoInv
<1>4. unregistered' => live' = {}
  BY <1>2 DEF RouterInv, UndoInv
<1>5. /\ loop' = "none" => loop = "none"
      /\ loop' # "none" => loop # "none"
      /\ loop' \in {"waiting", "settled"} => loop \in {"waiting", "settled"}
  BY DEF LoopGoesOn
<1>6. /\ loop' = "none" => latest = None /\ ~stopped /\ UndoLoop \notin ToSet(undo')
      /\ loop' # "none" /\ ~stopped /\ ~unregistered' => UndoLoop \in ToSet(undo')
      /\ loop' \in {"waiting", "settled"} => latest # None
  BY <1>2, <1>5 DEF RouterInv, UndoInv
<1>7. latest # None /\ readyState'[latest] # "closed" => ~stopped /\ ~unregistered'
  BY <1>2 DEF RouterInv, RouterTypes, UndoInv, StaysClosed
<1>8. UndoInv'
  BY <1>2, <1>3, <1>4, <1>6, <1>7 DEF UndoInv
<1>9. QED
  BY <1>1, <1>8 DEF UndoKept

\* The usual step: lists shrink or stay, dispatches stay or one starts.
LEMMA Usual ==
  ASSUME RouterInv, KeepsOrStarts, Cleans, StaysClosed, LoopGoesOn,
         UNCHANGED <<listeners, tableVars, routerVars, latest, stopped, left>>
  PROVE  RouterInv'
<1>1. ListsKept'
  BY ListsStay DEF tableVars, routerVars
<1>2. UndoKept'
  BY UndoStays DEF AtMostOne, Cleans, tableVars, routerVars, RouterInv, RouterTypes
<1>3. QED
  BY <1>1, <1>2, Together

LEMMA Lessening ==
  ASSUME RouterInv, Keeps, Cleans, StaysClosed, LoopGoesOn, AtMostOne,
         UNCHANGED <<latest, stopped, left>>, NEW L, Shrinks(L)
  PROVE  RouterInv'
<1>1. ListsKept'
  BY ListsShrink
<1>2. UndoKept'
  BY UndoStays DEF Cleans, Shrinks, RouterInv, RouterTypes
<1>3. QED
  BY <1>1, <1>2, Together

-----------------------------------------------------------------------------
(* The steps.                                                              *)

LEMMA RouterStarts == Init => RouterInv
<1> SUFFICES ASSUME Init PROVE RouterInv
  OBVIOUS
<1>1. RouterTypes
  <2>1. /\ <<>> \in Seq(Entries) /\ <<>> \in Seq(Undos) /\ <<>> \in Seq(Frames)
        /\ "closed" \in ReadyStates /\ "other" \in Reasons
    BY DEF ReadyStates, Reasons
  <2>2. /\ readyState \in [Sockets -> ReadyStates] /\ told \subseteq Sockets
        /\ listeners \in [Sockets -> Seq(Entries)] /\ turn \in [Sockets -> Seq(Entries)]
        /\ spent \in [Sockets -> SUBSET Entries] /\ reason \in [Sockets -> Reasons]
    BY <2>1 DEF Init, SocketInit
  <2>3. /\ live \subseteq Responses /\ attached \subseteq Sockets
        /\ heartbeat \in [Sockets -> {"off", "opening", "watching"}]
        /\ ref \in [Responses -> Sockets \cup {None}]
    BY DEF Init, TableInit
  <2>4. /\ undo \in Seq(Undos) /\ calls \in Seq(Frames)
        /\ unregistered \in BOOLEAN /\ stopped \in BOOLEAN
        /\ loop \in {"none", "waiting", "settled", "sleeping", "ended"}
        /\ latest \in Sockets \cup {None}
    BY <2>1 DEF Init
  <2>5. QED
    BY <2>2, <2>3, <2>4 DEF RouterTypes
<1>2. \A s \in Sockets : listeners[s] = <<>> /\ turn[s] = <<>> /\ spent[s] = {}
  BY DEF Init, SocketInit
<1>3. Names(<<>>) = {} /\ ToSet(<<>>) = {}
  BY DEF Names, ToSet
<1>4. TurnInv
  BY <1>2, <1>3 DEF Init, SocketInit, TurnInv, Dispatching, DispatchOf
<1>5. ListInv
  BY <1>2, <1>3, RouterSocketsAssumption DEF Init, ListInv
<1>6. OrderInv
  BY <1>2 DEF Init, OrderInv
<1>7. UndoInv
  BY <1>3 DEF Init, UndoInv
<1>8. QED
  BY <1>1, <1>4, <1>5, <1>6, <1>7 DEF RouterInv

LEMMA Typed == RouterInv => RouterTypes
BY DEF RouterInv

\* A request: its response is made or found, and bound.
LEMMA RequestKeeps ==
  ASSUME RouterInv, LookupIsExact, NEW s \in Sockets, NEW c \in Clients, NEW r \in RequestIds,
         OnRequest(s, c, r)
  PROVE  RouterInv'
<1> DEFINE p == <<c, r>>
<1>1. /\ Quiet /\ s \in attached
      /\ p \in Responses
      /\ UNCHANGED <<readyState, told, turn, spent, reason, attached, heartbeat, undo,
                     unregistered, loop, latest, stopped, calls>>
  BY DEF OnRequest, loopVars, Responses
<1>2. ConnectResponse(p, s)
  BY DEF OnRequest
<1>3. live' = live \cup {p}
  <2>1. CASE Found(c, r)
    BY <2>1 DEF OnRequest, LookupIsExact, tableVars
  <2>2. CASE ~Found(c, r)
    BY <2>2 DEF OnRequest, Open
  <2>3. QED
    BY <2>1, <2>2
<1>4. ListsKept'
  BY <1>1, <1>2, <1>3, ConnectKeeps DEF RouterInv, RouterTypes
<1>5. ~unregistered
  <2>1. ~CleansUp(calls, s)
    BY <1>1 DEF Quiet, CleansUp
  <2>2. QED
    BY <1>1, <2>1 DEF RouterInv, UndoInv
<1>6. UndoTypes'
  BY <1>1 DEF RouterInv, RouterTypes, UndoTypes
<1>7. UndoInv'
  BY <1>1, <1>5 DEF RouterInv, UndoInv
<1>8. QED
  BY <1>4, <1>6, <1>7, Together DEF UndoKept

\* Responses end.
LEMMA EndKeeps ==
  ASSUME RouterInv, NEW R, EndResponses(R)
  PROVE  RouterInv'
<1>1. /\ ReleaseResponses(R) /\ listeners' = Detached(R)
      /\ UNCHANGED <<readyState, told, turn, spent, reason, attached, heartbeat, undo,
                     unregistered, loop, latest, stopped, calls>>
  BY DEF EndResponses, loopVars
<1>2. UNCHANGED left /\ \E L : Shrinks(L)
  BY <1>1, ReleaseShrinks
<1>3. Keeps /\ Cleans
  BY <1>1, Typed, LikeItself, Liking
<1>4. StaysClosed /\ LoopGoesOn
  BY <1>1 DEF RouterInv, RouterTypes, StaysClosed, LoopGoesOn
<1>5. AtMostOne
  BY <1>1, <1>2 DEF AtMostOne, Shrinks
<1>6. QED
  BY <1>1, <1>2, <1>3, <1>4, <1>5, Lessening

LEMMA PeerKeeps ==
  ASSUME RouterInv, LookupIsExact, NEW s \in Sockets, Peer(s)
  PROVE  RouterInv'
<1>1. LikeCalls(calls)
  BY Typed, LikeItself
<1>2. ASSUME NEW c \in Clients, SessionRelease(s, c)
      PROVE  RouterInv'
  BY <1>2, EndKeeps DEF SessionRelease
<1>3. CASE Ping(s) \/ FallSilent(s) \/ Vanish(s)
  <2>1. UNCHANGED <<tableVars, socketVars, routerVars, loopVars, calls, left>>
    BY <1>3 DEF Ping, FallSilent, Vanish
  <2>2. KeepsOrStarts /\ Cleans
    BY <2>1, <1>1, Liking DEF socketVars
  <2>3. StaysClosed /\ LoopGoesOn
    BY <2>1 DEF RouterInv, RouterTypes, StaysClosed, LoopGoesOn, socketVars, loopVars
  <2>4. QED
    BY <2>1, <2>2, <2>3, Usual DEF socketVars, loopVars
<1>4. CASE NativeOpen(s)
  <2>1. /\ readyState[s] = "connecting"
        /\ readyState' = [readyState EXCEPT ![s] = "open"]
        /\ heartbeat' = [heartbeat EXCEPT ![s] = IF @ = "opening" THEN "watching" ELSE @]
        /\ UNCHANGED <<tableVars, told, listeners, turn, spent, reason, attached, undo,
                       unregistered, ref, loop, latest, stopped, calls, left>>
    BY <1>4 DEF NativeOpen, loopVars
  <2>2. KeepsOrStarts /\ Keeps /\ Cleans
    BY <2>1, <1>1, Liking
  <2>3. ListsKept'
    BY <2>1, <2>2, ListsStay DEF tableVars
  <2>4. UndoTypes'
    BY <2>1 DEF RouterInv, RouterTypes, UndoTypes, ReadyStates
  <2>5. UndoInv'
    BY <2>1 DEF RouterInv, RouterTypes, UndoInv, tableVars
  <2>6. QED
    BY <2>3, <2>4, <2>5, Together DEF UndoKept
<1>5. CASE NativeError(s)
  <2>1. /\ loop = "waiting" /\ loop' = "settled"
        /\ listeners' = [listeners EXCEPT ![s] = removeEventListeners(@, {Settle})]
        /\ UNCHANGED <<tableVars, readyState, told, turn, spent, reason, routerVars, latest,
                       stopped, calls, left>>
    BY <1>5 DEF NativeError, ErrorSettles
  <2>2. Keeps /\ Cleans
    BY <2>1, <1>1, Liking
  <2>3. \E L : Shrinks(L)
    BY <2>1, DropShrinks DEF routerVars, tableVars
  <2>4. StaysClosed /\ LoopGoesOn /\ AtMostOne
    BY <2>1 DEF RouterInv, RouterTypes, StaysClosed, LoopGoesOn, AtMostOne, routerVars, tableVars
  <2>5. QED
    BY <2>1, <2>2, <2>3, <2>4, Lessening
<1>6. ASSUME NEW why \in Reasons, NativeClose(s, why)
      PROVE  RouterInv'
  <2>1. /\ readyState' = [readyState EXCEPT ![s] = "closed"]
        /\ UNCHANGED <<tableVars, listeners, spent, routerVars, loop, latest, stopped, left>>
    BY <1>6 DEF NativeClose, loopVars
  <2>2. KeepsOrStarts /\ Cleans
    <3>1. CASE NativeCloseHandler(s) /\ s \notin told
      <4>1. StartDispatch(s, why) /\ calls' = <<Call("dispatch", s)>> /\ calls = <<>>
        BY <1>6, <3>1 DEF NativeClose, Quiet
      <4>2. calls' = <<Call("dispatch", s)>> \o calls
        BY <4>1
      <4>3. QED
        BY <2>1, <3>1, <4>1, <4>2, <1>1, Starting, Typed
    <3>2. CASE ~(NativeCloseHandler(s) /\ s \notin told)
      <4>1. UNCHANGED <<told, turn, reason, calls>>
        BY <1>6, <3>2 DEF NativeClose
      <4>2. QED
        BY <2>1, <4>1, <1>1, Liking
    <3>3. QED
      BY <3>1, <3>2
  <2>3. StaysClosed /\ LoopGoesOn
    BY <2>1 DEF RouterInv, RouterTypes, StaysClosed, LoopGoesOn, ReadyStates
  <2>4. QED
    BY <2>1, <2>2, <2>3, Usual
<1>7. QED
  BY <1>2, <1>3, <1>4, <1>5, <1>6, RequestKeeps DEF Peer

\* What an attachment adds: it is to be undone, and its socket is not used by
\* autoReconnect.
LEMMA Adds ==
  ASSUME NEW S, NEW q \in Seq(S), NEW f \in S
  PROVE  Append(q, f) \in Seq(S) /\ ToSet(Append(q, f)) = ToSet(q) \cup {f}
<1> DEFINE r == Append(q, f)
<1>1. r \in Seq(S) /\ Len(r) = Len(q) + 1 /\ r[Len(q) + 1] = f
      /\ \A i \in 1 .. Len(q) : r[i] = q[i]
  OBVIOUS
<1> HIDE DEF r
<1>2. ToSet(r) = ToSet(q) \cup {f}
  BY <1>1 DEF ToSet
<1>3. QED
  BY <1>1, <1>2 DEF r

\* forceClose by whoever may call it.
LEMMA ForceKeeps ==
  ASSUME RouterInv, NEW s \in Sockets, NEW rest, LikeCalls(rest), ForceClose(s, "other", rest),
         LoopGoesOn, UNCHANGED <<tableVars, routerVars, latest, stopped, left>>
  PROVE  RouterInv'
<1>1. KeepsOrStarts /\ Cleans /\ StaysClosed /\ UNCHANGED listeners
  BY Typed, Forcing DEF Reasons
<1>2. QED
  BY <1>1, Usual

\* The clean-up of an attachment, with the call it was on the stack for popped.
LEMMA CleanupKeeps ==
  ASSUME RouterInv, NEW s \in Sockets, CleanupAttachment(s, "other"),
         UNCHANGED <<readyState, told, turn, spent, reason, loopVars>>,
         calls' \in Seq(Frames),
         \A t \in Sockets : DispatchOf(calls', t) <=> Dispatching(t),
         \A t \in Sockets : t # s => (CleansUp(calls, t) => CleansUp(calls', t))
  PROVE  RouterInv'
<1>1. /\ CleansOne(s)
      /\ \E L : Shrinks(L)
  BY CleanupShrinks DEF Reasons
<1>2. Keeps
  BY DEF Keeps
<1>3. ListsKept'
  BY <1>1, <1>2, ListsShrink DEF CleansOne
<1>4. StaysClosed /\ LoopGoesOn /\ UNCHANGED <<latest, stopped>>
  BY DEF loopVars, StaysClosed, LoopGoesOn, RouterInv, RouterTypes
<1>5. \A t \in attached' : CleansUp(calls, t) => CleansUp(calls', t)
  BY <1>1 DEF CleansOne, RouterInv, RouterTypes
<1>6. AtMostOne
  BY <1>1 DEF AtMostOne
<1>7. UndoKept'
  BY <1>4, <1>5, <1>6, UndoStays
<1>8. QED
  BY <1>3, <1>7, Together

LEMMA AttachClientKeeps ==
  ASSUME RouterInv, NEW s \in Sockets, NEW n \in {"open", "closed"}, AttachClient(s, n)
  PROVE  RouterInv'
<1> DEFINE more == IF n = "closed" THEN <<>> ELSE <<[FirstEntry(Watch) EXCEPT !.once = TRUE]>>
<1>1. /\ Disposable(s) /\ s # latest /\ ~unregistered
      /\ Attach(s, n, more)
      /\ undo' = Append(undo, UndoAttach(s))
      /\ UNCHANGED <<tableVars, unregistered, ref, loop, latest, stopped, left>>
  BY DEF AttachClient, loopVars
<1>2. LikeCalls(calls')
  BY Typed, LikeRest DEF AttachClient
<1>3. n \in ReadyStates
  BY DEF ReadyStates
<1>4. more \in {<<>>, <<FirstEntry(Settle)>>, <<[FirstEntry(Watch) EXCEPT !.once = TRUE]>>}
  OBVIOUS
<1>5. ListsKept'
  <2> HIDE DEF more
  <2>1. \A t \in Sockets : DispatchOf(calls', t) <=> Dispatching(t)
    BY <1>2 DEF LikeCalls
  <2>2. QED
    BY <1>1, <1>3, <1>4, <2>1, AttachKeeps DEF tableVars
<1>6. undo' \in Seq(Undos) /\ ToSet(undo') = ToSet(undo) \cup {UndoAttach(s)}
  <2>1. UndoAttach(s) \in Undos
    BY DEF Undos
  <2>2. QED
    BY <1>1, <2>1, Adds DEF RouterInv, RouterTypes
<1>7. /\ attached' = attached \cup {s}
      /\ readyState' = [readyState EXCEPT ![s] = n]
      /\ heartbeat' = [heartbeat EXCEPT ![s] = IF n = "open" THEN "watching" ELSE "opening"]
  BY <1>1 DEF Attach, NewSocket
<1>8. UndoTypes'
  BY <1>1, <1>2, <1>3, <1>6, <1>7 DEF LikeCalls, RouterInv, RouterTypes, UndoTypes
<1>9. UndoInv'
  <2>1. \A t \in attached' :
          (~unregistered' /\ UndoAttach(t) \in ToSet(undo')) \/ CleansUp(calls', t)
    BY <1>1, <1>2, <1>6, <1>7 DEF LikeCalls, RouterInv, RouterTypes, UndoInv
  <2>2. \A t \in Sockets : heartbeat'[t] # "off" => t \in attached'
    BY <1>7 DEF RouterInv, RouterTypes, UndoInv
  <2>3. UndoLoop \in ToSet(undo') <=> UndoLoop \in ToSet(undo)
    BY <1>6, UndosDiffer
  <2>4. latest # None => readyState'[latest] = readyState[latest]
    BY <1>1, <1>7 DEF RouterInv, RouterTypes
  <2>5. QED
    BY <1>1, <2>1, <2>2, <2>3, <2>4 DEF RouterInv, UndoInv, tableVars
<1>10. QED
  BY <1>5, <1>8, <1>9, Together DEF UndoKept

LEMMA ApplicationKeeps ==
  ASSUME RouterInv, NEW s \in Sockets, Application(s)
  PROVE  RouterInv'
<1>1. CASE DetachClient(s)
  <2>1. LikeCalls(calls')
    BY <1>1, Typed, LikeRest DEF DetachClient
  <2>2. QED
    BY <1>1, <2>1, CleanupKeeps DEF DetachClient, LikeCalls
<1>2. CASE ForceCloseByApplication(s)
  <2>1. LikeCalls(Rest)
    BY <1>2, Typed, LikeRest DEF ForceCloseByApplication
  <2>2. LoopGoesOn
    BY <1>2 DEF ForceCloseByApplication, loopVars, LoopGoesOn
  <2>3. QED
    BY <1>2, <2>1, <2>2, ForceKeeps DEF ForceCloseByApplication, loopVars
<1>3. CASE CloseByApplication(s)
  <2>1. /\ readyState[s] = "open"
        /\ readyState' = [readyState EXCEPT ![s] = "closing"]
        /\ UNCHANGED <<tableVars, told, listeners, turn, spent, reason, routerVars,
                       loop, latest, stopped, calls, left>>
    BY <1>3 DEF CloseByApplication, loopVars
  <2>2. KeepsOrStarts /\ Cleans
    BY <2>1, Typed, LikeItself, Liking
  <2>3. StaysClosed /\ LoopGoesOn
    BY <2>1 DEF RouterInv, RouterTypes, StaysClosed, LoopGoesOn, ReadyStates
  <2>4. QED
    BY <2>1, <2>2, <2>3, Usual
<1>4. QED
  BY <1>1, <1>2, <1>3, AttachClientKeeps DEF Application

\* The heartbeat of a socket ends, and may close it.
LEMMA HeartbeatKeeps ==
  ASSUME RouterInv, NEW s \in Sockets, OpenTimeout(s) \/ CheckPing(s)
  PROVE  RouterInv'
<1>1. /\ calls = <<>>
      /\ heartbeat' = [heartbeat EXCEPT ![s] = "off"]
      /\ UNCHANGED <<tableVars, attached, undo, unregistered, ref, loop, latest, stopped, left>>
      /\ ForceClose(s, "other", <<>>) \/ UNCHANGED <<socketVars, calls>>
  BY DEF OpenTimeout, CheckPing, Quiet, loopVars
<1>2. KeepsOrStarts /\ Cleans /\ StaysClosed /\ UNCHANGED listeners
  <2>1. LikeCalls(calls) /\ LikeCalls(<<>>)
    BY <1>1, Typed, LikeItself
  <2>2. CASE ForceClose(s, "other", <<>>)
    BY <2>1, <2>2, Typed, Forcing DEF Reasons
  <2>3. CASE UNCHANGED <<socketVars, calls>>
    BY <2>1, <2>3, Liking DEF socketVars, StaysClosed, RouterInv, RouterTypes
  <2>4. QED
    BY <1>1, <2>2, <2>3
<1>3. ListsKept'
  BY <1>1, <1>2, ListsStay DEF tableVars
<1>4. UndoTypes'
  BY <1>1, <1>2 DEF RouterInv, RouterTypes, UndoTypes, Cleans, StaysClosed
<1>5. UndoInv'
  BY <1>1, <1>2 DEF RouterInv, RouterTypes, UndoInv, Cleans, StaysClosed, tableVars
<1>6. QED
  BY <1>3, <1>4, <1>5, Together DEF UndoKept

LEMMA Joining ==
  ASSUME NEW S, NEW q \in Seq(S), NEW r \in Seq(S)
  PROVE  q \o r \in Seq(S) /\ ToSet(q \o r) = ToSet(q) \cup ToSet(r)
<1> DEFINE u == q \o r
<1>1. /\ u \in Seq(S) /\ Len(u) = Len(q) + Len(r)
      /\ \A i \in 1 .. Len(q) : u[i] = q[i]
      /\ \A i \in 1 .. Len(r) : u[Len(q) + i] = r[i]
  OBVIOUS
<1> HIDE DEF u
<1>2. \A i \in 1 .. Len(u) : i \in 1 .. Len(q) \/ (i - Len(q) \in 1 .. Len(r) /\ u[i] = r[i - Len(q)])
  <2> TAKE i \in 1 .. Len(u)
  <2>1. CASE i > Len(q)
    <3>1. i - Len(q) \in 1 .. Len(r) /\ Len(q) + (i - Len(q)) = i
      BY <1>1, <2>1
    <3>2. QED
      BY <1>1, <3>1
  <2>2. CASE ~(i > Len(q))
    BY <1>1, <2>2
  <2>3. QED
    BY <2>1, <2>2
<1>3. ToSet(u) \subseteq ToSet(q) \cup ToSet(r)
  BY <1>1, <1>2 DEF ToSet
<1>4. ToSet(q) \subseteq ToSet(u)
  <2>1. \A i \in DOMAIN q : i \in DOMAIN u /\ u[i] = q[i]
    BY <1>1
  <2>2. QED
    BY <2>1 DEF ToSet
<1>5. ToSet(r) \subseteq ToSet(u)
  <2>1. \A i \in DOMAIN r : Len(q) + i \in DOMAIN u /\ u[Len(q) + i] = r[i]
    BY <1>1
  <2>2. QED
    BY <2>1 DEF ToSet
<1>6. QED
  BY <1>1, <1>3, <1>4, <1>5 DEF u

\* What unregister will find after an attempt of autoReconnect.
LEMMA AttemptUndoes ==
  ASSUME RouterInv, LikeCalls(calls'), ~stopped, UNCHANGED <<stopped, unregistered, live>>,
         undo' \in Seq(Undos), ToSet(undo) \subseteq ToSet(undo'),
         readyState' \in [Sockets -> ReadyStates],
         heartbeat' \in [Sockets -> {"off", "opening", "watching"}],
         latest' \in Sockets \cup {None},
         loop' \in {"waiting", "settled", "sleeping"},
         ~unregistered => UndoLoop \in ToSet(undo'),
         attached' \subseteq Sockets,
         \A t \in attached' \ attached : ~unregistered /\ UndoAttach(t) \in ToSet(undo'),
         \A t \in Sockets : heartbeat'[t] # "off" => t \in attached',
         loop' # "sleeping" => latest' # None,
         latest' # None => (readyState'[latest'] # "closed" => ~unregistered)
  PROVE  UndoKept'
<1>1. UndoTypes'
  BY DEF RouterInv, RouterTypes, UndoTypes, LikeCalls
<1>2. \A t \in attached' :
        (~unregistered' /\ UndoAttach(t) \in ToSet(undo')) \/ CleansUp(calls', t)
  BY DEF LikeCalls, RouterInv, RouterTypes, UndoInv
<1>3. UndoInv'
  BY <1>2 DEF RouterInv, UndoInv
<1>4. QED
  BY <1>1, <1>3 DEF UndoKept

\* One attempt of autoReconnect.
LEMMA AttemptKeeps ==
  ASSUME RouterInv, LikeCalls(calls'), ~stopped, UNCHANGED stopped, NEW more, Attempt(more),
         \/ loop = "none" /\ more = <<UndoLoop>>
         \/ loop = "sleeping" /\ more = <<>>
  PROVE  RouterInv'
<1>1. UNCHANGED <<live, unregistered, ref, left>>
  BY DEF Attempt, tableVars
<1>2. /\ more \in Seq(Undos)
      /\ ~unregistered => UndoLoop \in ToSet(undo) \cup ToSet(more)
  <2>1. <<UndoLoop>> \in Seq(Undos) /\ UndoLoop \in ToSet(<<UndoLoop>>)
    BY DEF Undos, ToSet
  <2>2. <<>> \in Seq(Undos)
    OBVIOUS
  <2>3. loop = "sleeping" /\ ~unregistered => UndoLoop \in ToSet(undo)
    BY DEF RouterInv, UndoInv
  <2>4. QED
    BY <2>1, <2>2, <2>3
<1>3. undo \in Seq(Undos)
  BY DEF RouterInv, RouterTypes
<1>4. undo \o more \in Seq(Undos) /\ ToSet(undo \o more) = ToSet(undo) \cup ToSet(more)
  BY <1>2, <1>3, Joining
<1>5. \A t \in Sockets : DispatchOf(calls', t) <=> Dispatching(t)
  BY DEF LikeCalls
<1>6. CASE AttemptThrows(more)
  <2>1. /\ loop' = "sleeping" /\ undo' = undo \o more
        /\ UNCHANGED <<readyState, told, listeners, turn, spent, reason, attached, heartbeat, latest>>
    BY <1>6 DEF AttemptThrows, socketVars
  <2>2. ListsKept'
    BY <1>1, <2>1, Liking, ListsStay
  <2>3. UndoKept'
    BY <1>1, <1>2, <1>4, <2>1, AttemptUndoes DEF RouterInv, RouterTypes, UndoInv
  <2>4. QED
    BY <2>2, <2>3, Together
<1>7. ASSUME NEW s \in Sockets, NEW n \in {"connecting", "closed"}, AttemptConnects(s, n, more)
      PROVE  RouterInv'
  <2>1. Disposable(s) /\ latest' = s
    BY <1>7 DEF AttemptConnects
  <2>2. s # None
    BY RouterSocketsAssumption
  <2>3. CASE unregistered /\ loop' = "sleeping"
    <3>1. /\ NewSocket(s, "closed")
          /\ undo' = undo \o more
          /\ UNCHANGED <<listeners, attached, heartbeat>>
      BY <1>7, <2>3 DEF AttemptConnects, AttachRefused
    <3>2. ~Dispatching(s)
      <4>1. \A call \in ToSet(calls) : call.socket # s
        BY <2>1 DEF Disposable
      <4>2. QED
        BY <4>1 DEF Call, Dispatching, DispatchOf
    <3>3. DispatchTypes' /\ TurnInv' /\ OrderInv'
      BY <1>1, <1>5, <3>1, <3>2, DispatchesRenewed DEF NewSocket
    <3>4. ListTypes' /\ ListInv'
      BY <1>1, <3>1 DEF RouterInv, RouterTypes, ListTypes, ListInv
    <3>5. /\ readyState' \in [Sockets -> ReadyStates]
          /\ readyState'[s] = "closed"
      BY <3>1 DEF NewSocket, RouterInv, RouterTypes, ReadyStates
    <3>6. UndoKept'
      BY <1>1, <1>2, <1>4, <2>1, <2>3, <3>1, <3>5, AttemptUndoes DEF RouterInv, RouterTypes, UndoInv
    <3>7. QED
      BY <3>3, <3>4, <3>6, Together DEF ListsKept
  <2>4. CASE ~unregistered
    <3> DEFINE rest == IF n = "closed" THEN <<>> ELSE <<FirstEntry(Settle)>>
               one == <<UndoAttach(s)>>
               added == undo \o one
    <3>1. /\ Attach(s, n, rest)
          /\ undo' = added \o more
          /\ loop' = IF n = "closed" THEN "settled" ELSE "waiting"
      BY <1>7, <2>4 DEF AttemptConnects, AttachRefused
    <3>2. n \in ReadyStates
      BY DEF ReadyStates
    <3>3. ListsKept'
      <4>1. rest \in {<<>>, <<FirstEntry(Settle)>>, <<[FirstEntry(Watch) EXCEPT !.once = TRUE]>>}
        OBVIOUS
      <4> HIDE DEF rest
      <4>2. QED
        BY <1>1, <1>5, <2>1, <3>1, <3>2, <4>1, AttachKeeps
    <3>4. added \in Seq(Undos) /\ ToSet(added) = ToSet(undo) \cup {UndoAttach(s)}
      <4>1. one \in Seq(Undos) /\ ToSet(one) = {UndoAttach(s)}
        BY DEF Undos, ToSet
      <4> HIDE DEF one
      <4>2. QED
        BY <1>3, <4>1, Joining
    <3> HIDE DEF added, one, rest
    <3>5. undo' \in Seq(Undos) /\ ToSet(undo') = ToSet(undo) \cup {UndoAttach(s)} \cup ToSet(more)
      BY <1>2, <3>1, <3>4, Joining
    <3>6. /\ attached' = attached \cup {s}
          /\ readyState' = [readyState EXCEPT ![s] = n]
          /\ heartbeat' = [heartbeat EXCEPT ![s] = IF n = "open" THEN "watching" ELSE "opening"]
      BY <3>1 DEF Attach, NewSocket
    <3>7. /\ readyState' \in [Sockets -> ReadyStates]
          /\ heartbeat' \in [Sockets -> {"off", "opening", "watching"}]
          /\ \A t \in Sockets : heartbeat'[t] # "off" => t \in attached'
      BY <3>2, <3>6 DEF RouterInv, RouterTypes, UndoInv
    <3>8. loop' \in {"waiting", "settled", "sleeping"} /\ attached' \subseteq Sockets
      BY <3>1, <3>6 DEF RouterInv, RouterTypes
    <3>9. UndoKept'
      BY <1>1, <1>2, <2>1, <2>2, <2>4, <3>5, <3>6, <3>7, <3>8, AttemptUndoes
    <3>10. QED
      BY <3>3, <3>9, Together
  <2>5. unregistered => loop' = "sleeping"
    BY <1>7 DEF AttemptConnects, AttachRefused
  <2>6. QED
    BY <2>3, <2>4, <2>5
<1>8. QED
  BY <1>6, <1>7 DEF Attempt

\* The function autoReconnect returned.
LEMMA StopKeeps ==
  ASSUME RouterInv, StopByApplication
  PROVE  RouterInv'
<1>1. /\ loop # "none" /\ stopped' = TRUE
      /\ undo' = Forgotten(UndoLoop)
      /\ UNCHANGED <<tableVars, attached, heartbeat, unregistered, ref, loop, latest, left>>
      /\ \/ latest = None /\ calls' = Rest /\ UNCHANGED socketVars
         \/ latest # None /\ ForceClose(latest, "other", Rest)
  BY DEF StopByApplication, StopReconnecting
<1>2. LikeCalls(Rest)
  BY Typed, LikeRest DEF StopByApplication
<1>3. /\ KeepsOrStarts /\ Cleans /\ StaysClosed /\ UNCHANGED listeners
      /\ latest # None => readyState'[latest] = "closed"
  <2>1. CASE calls' = Rest /\ UNCHANGED socketVars /\ latest = None
    BY <1>2, <2>1, Liking DEF socketVars, StaysClosed, RouterInv, RouterTypes
  <2>2. CASE latest # None /\ ForceClose(latest, "other", Rest)
    BY <1>2, <2>2, Typed, Forcing DEF Reasons, RouterTypes
  <2>3. QED
    BY <1>1, <2>1, <2>2
<1>4. ListsKept'
  BY <1>1, <1>3, ListsStay DEF tableVars
<1>5. undo' \in Seq(Undos) /\ ToSet(undo') = ToSet(undo) \ {UndoLoop}
  BY <1>1, Typed, Forgetting
<1>6. UndoTypes'
  BY <1>1, <1>3, <1>5 DEF RouterInv, RouterTypes, UndoTypes, Cleans, StaysClosed
<1>7. \A t \in attached' :
        (~unregistered' /\ UndoAttach(t) \in ToSet(undo')) \/ CleansUp(calls', t)
  BY <1>1, <1>3, <1>5, UndosDiffer DEF Cleans, RouterInv, RouterTypes, UndoInv
<1>8. UndoInv'
  BY <1>1, <1>3, <1>7 DEF RouterInv, UndoInv, tableVars
<1>9. QED
  BY <1>4, <1>6, <1>8, Together DEF UndoKept

LEMMA TimerKeeps ==
  ASSUME RouterInv,
         \/ \E s \in Sockets : OpenTimeout(s) \/ CheckPing(s)
         \/ AutoReconnect \/ StopByApplication
         \/ Reconnect \/ FinishAttempt \/ EndLoop
  PROVE  RouterInv'
<1>1. CASE AutoReconnect
  <2>1. LikeCalls(calls')
    BY <1>1, Typed, LikeRest DEF AutoReconnect
  <2>2. loop = "none" /\ ~stopped
    BY <1>1 DEF AutoReconnect, RouterInv, UndoInv
  <2>3. QED
    BY <1>1, <2>1, <2>2, AttemptKeeps DEF AutoReconnect
<1>2. CASE Reconnect
  <2>1. LikeCalls(calls')
    BY <1>2, Typed, LikeItself DEF Reconnect
  <2>2. QED
    BY <1>2, <2>1, AttemptKeeps DEF Reconnect
<1>3. CASE FinishAttempt
  <2>1. /\ calls = <<>> /\ loop = "settled" /\ loop' = "sleeping"
        /\ UNCHANGED <<tableVars, readyState, told, listeners, turn, spent, reason,
                       routerVars, latest, stopped, left>>
    BY <1>3 DEF FinishAttempt, Quiet, socketVars
  <2>2. latest \in Sockets
    BY <2>1 DEF RouterInv, RouterTypes, UndoInv
  <2> DEFINE force == Call("force", latest)
             clean == Call("cleanup", latest)
  <2>3. force \in Frames /\ clean \in Frames /\ force.do # "dispatch" /\ clean.do # "dispatch"
    BY <2>2 DEF Call, Frames
  <2> HIDE DEF force, clean
  <2>4. LikeCalls(<<>>)
    BY <2>1, Typed, LikeItself
  <2>5. LikeCalls(<<force>>)
    <3>1. LikeCalls(<<force>> \o <<>>)
      BY <2>3, <2>4, LikePushed
    <3>2. <<force>> \o <<>> = <<force>>
      BY <2>3
    <3>3. QED
      BY <3>1, <3>2
  <2>6. LikeCalls(calls')
    <3>1. calls' = <<clean>> \o <<>> \/ calls' = <<clean>> \o <<force>>
      BY <1>3 DEF FinishAttempt, clean, force
    <3>2. QED
      BY <2>3, <2>4, <2>5, <3>1, LikePushed
  <2>7. KeepsOrStarts /\ Cleans
    BY <2>1, <2>6, Liking
  <2>8. StaysClosed /\ LoopGoesOn
    BY <2>1 DEF RouterInv, RouterTypes, StaysClosed, LoopGoesOn
  <2>9. QED
    BY <2>1, <2>7, <2>8, Usual
<1>4. CASE EndLoop
  <2>1. /\ loop = "sleeping" /\ loop' = "ended"
        /\ UNCHANGED <<tableVars, readyState, told, listeners, turn, spent, reason,
                       routerVars, latest, stopped, calls, left>>
    BY <1>4 DEF EndLoop, socketVars
  <2>2. KeepsOrStarts /\ Cleans
    BY <2>1, Typed, LikeItself, Liking
  <2>3. StaysClosed /\ LoopGoesOn
    BY <2>1 DEF RouterInv, RouterTypes, StaysClosed, LoopGoesOn
  <2>4. QED
    BY <2>1, <2>2, <2>3, Usual
<1>5. QED
  BY <1>1, <1>2, <1>3, <1>4, HeartbeatKeeps, StopKeeps

\* A listener had its turn, or was passed over: the attachment comes first.
LEMMA TurnShrinks ==
  ASSUME RouterInv, NEW s \in Sockets, Dispatching(s), turn[s] # <<>>,
         turn' = [turn EXCEPT ![s] = Tail(@)], UNCHANGED <<told, reason, left>>,
         LikeCalls(calls'), NEW L, Shrinks(L), s \notin attached',
         NEW e, e = Head(turn[s]),
         \/ spent' = spent
         \/ /\ spent' = [spent EXCEPT ![s] = @ \cup {e}]
            /\ e.listener = Cleanup /\ reason[s] = "goodbye" => \A p \in Responses : ref'[p] # s
  PROVE  ListsKept'
<1>1. ListTypes' /\ ListInv'
  BY ListShrinks DEF RouterInv
<1>2. turn[s] \in Seq(Entries)
  BY DEF RouterInv, RouterTypes
<1>3. DispatchTypes'
  <2>1. Tail(turn[s]) \in Seq(Entries) /\ e \in Entries
    BY <1>2
  <2>2. turn' \in [Sockets -> Seq(Entries)]
    BY <2>1 DEF RouterInv, RouterTypes
  <2>3. spent' \in [Sockets -> SUBSET Entries]
    <3>1. spent \in [Sockets -> SUBSET Entries]
      BY DEF RouterInv, RouterTypes
    <3>2. spent[s] \cup {e} \in SUBSET Entries
      BY <2>1, <3>1
    <3>3. spent' = spent \/ spent' = [spent EXCEPT ![s] = spent[s] \cup {e}]
      OBVIOUS
    <3> HIDE DEF Entries
    <3>4. QED
      BY <3>1, <3>2, <3>3
  <2>4. QED
    BY <2>2, <2>3 DEF RouterInv, RouterTypes, DispatchTypes
<1>4. \A t \in Sockets : t # s => turn'[t] = turn[t] /\ spent'[t] = spent[t]
  BY DEF RouterInv, RouterTypes
<1>5. \A t \in Sockets : DispatchOf(calls', t) <=> Dispatching(t)
  BY DEF LikeCalls
<1>6. TurnInv'
  BY <1>4, <1>5 DEF RouterInv, TurnInv, Dispatching
<1>7. ASSUME NEW t \in attached', DispatchOf(calls', t)
      PROVE  turn'[t] # <<>> /\ Head(turn'[t]) = FirstEntry(Cleanup)
  <2>1. t # s /\ t \in attached /\ t \in Sockets
    BY DEF Shrinks, RouterInv, RouterTypes
  <2>2. QED
    BY <1>4, <1>5, <1>7, <2>1 DEF RouterInv, OrderInv
<1>8. ASSUME NEW t \in Sockets, reason'[t] = "goodbye",
             Cleanup \in {x.listener : x \in spent'[t]}, NEW p \in Responses
      PROVE  ref'[p] # t
  <2>1. ref'[p] = t => ref[p] = t
    BY DEF Shrinks
  <2>2. CASE Cleanup \in {x.listener : x \in spent[t]}
    BY <1>8, <2>1, <2>2 DEF RouterInv, OrderInv
  <2>3. CASE Cleanup \notin {x.listener : x \in spent[t]}
    <3>1. t = s
      BY <1>4, <1>8, <2>3
    <3>2. spent'[s] = spent[s] \cup {e} /\ e.listener = Cleanup
      BY <1>8, <2>3, <3>1 DEF RouterInv, RouterTypes
    <3>3. spent' # spent
      BY <1>8, <2>3
    <3>4. QED
      BY <1>8, <3>1, <3>2, <3>3
  <2>4. QED
    BY <2>2, <2>3
<1>9. OrderInv'
  BY <1>7, <1>8 DEF RouterInv, OrderInv, Dispatching, FirstEntry
<1>10. QED
  BY <1>1, <1>3, <1>6, <1>9 DEF ListsKept

LEMMA ShrinkNone ==
  ASSUME RouterInv, UNCHANGED <<listeners, attached, live, ref>>
  PROVE  \E L : Shrinks(L)
<1> DEFINE L == [t \in Sockets |-> {}]
<1>1. \A t \in Sockets : Without(listeners[t], listeners'[t], L[t])
  BY WithoutNone DEF RouterInv, RouterTypes
<1>2. Shrinks(L)
  BY <1>1 DEF Shrinks, RouterInv, RouterTypes, ListInv
<1>3. QED
  BY <1>2

\* A listener of a dispatch has its turn.
LEMMA TellKeeps ==
  ASSUME RouterInv, NEW s \in Sockets, Dispatching(s), turn[s] # <<>>, TellNext(s)
  PROVE  RouterInv'
<1> DEFINE e == Head(turn[s])
<1>1. /\ turn' = [turn EXCEPT ![s] = Tail(@)]
      /\ UNCHANGED <<readyState, told, reason, latest, stopped>>
  BY DEF TellNext
<1>2. s \in attached => e = FirstEntry(Cleanup) /\ StillListed(s, e) /\ e.listener = Cleanup
  <2>1. s \in attached => e = FirstEntry(Cleanup)
    BY DEF RouterInv, OrderInv
  <2>2. s \in attached => FirstEntry(Cleanup) \in ToSet(listeners[s])
    <3>1. listeners[s] # <<>> => 1 \in DOMAIN listeners[s]
      BY DEF RouterInv, RouterTypes
    <3>2. QED
      BY <3>1 DEF RouterInv, ListInv, ToSet
  <2>3. FirstEntry(Cleanup).listener = Cleanup
    BY DEF FirstEntry
  <2>4. QED
    BY <2>1, <2>2, <2>3 DEF StillListed
<1>3. StillListed(s, e) /\ e.listener = Cleanup => s \in attached
  <2>1. StillListed(s, e) => e.listener \in Names(listeners[s])
    BY NamesAre DEF StillListed, RouterInv, RouterTypes
  <2>2. QED
    BY <2>1 DEF RouterInv, ListInv
<1>4. StaysClosed
  BY <1>1 DEF StaysClosed, RouterInv, RouterTypes
<1>5. LikeCalls(calls)
  BY Typed, LikeItself
<1>6. CASE ~StillListed(s, e)
  <2>1. UNCHANGED <<tableVars, routerVars, listeners, spent, loop, calls, left>>
    BY <1>6 DEF TellNext
  <2>2. s \notin attached'
    BY <1>2, <1>6, <2>1 DEF routerVars
  <2>3. PICK L : Shrinks(L)
    BY <2>1, ShrinkNone DEF tableVars, routerVars
  <2>4. ListsKept'
    <3> HIDE DEF e
    <3>1. e = Head(turn[s])
      BY DEF e
    <3>2. QED
      BY <1>1, <1>5, <2>1, <2>2, <2>3, <3>1, TurnShrinks
  <2>5. UndoKept'
    BY <1>1, <1>4, <2>1, UndoStays DEF AtMostOne, LoopGoesOn, tableVars, routerVars, RouterInv, RouterTypes
  <2>6. QED
    BY <2>4, <2>5, Together
<1>7. ASSUME StillListed(s, e), spent' = [spent EXCEPT ![s] = @ \cup {e}], NEW L, Shrinks(L),
             s \notin attached', LikeCalls(calls'), AtMostOne, LoopGoesOn, UNCHANGED left,
             e.listener = Cleanup /\ reason[s] = "goodbye" => \A p \in Responses : ref'[p] # s
      PROVE  RouterInv'
  <2>1. ListsKept'
    <3> HIDE DEF e
    <3>1. e = Head(turn[s])
      BY DEF e
    <3>2. QED
      BY <1>1, <1>7, <3>1, TurnShrinks
  <2>2. UndoKept'
    BY <1>1, <1>4, <1>7, UndoStays DEF LikeCalls, Shrinks, RouterInv, RouterTypes
  <2>3. QED
    BY <2>1, <2>2, Together
<1>8. CASE StillListed(s, e)
  <2>1. spent' = [spent EXCEPT ![s] = @ \cup {e}]
    BY <1>8 DEF TellNext
  <2>2. CASE e.listener = Cleanup /\ CleanupAttachment(s, reason[s]) /\ UNCHANGED <<loop, calls>>
    <3>1. reason[s] \in Reasons /\ s \in attached
      BY <1>3, <1>8, <2>2 DEF RouterInv, RouterTypes
    <3>2. /\ CleansOne(s)
          /\ \E L : Shrinks(L)
          /\ reason[s] = "goodbye" => \A p \in Responses : ref'[p] # s
      BY <2>2, <3>1, CleanupShrinks
    <3>3. AtMostOne /\ s \notin attached' /\ UNCHANGED left
      BY <3>2 DEF AtMostOne, CleansOne
    <3>4. LoopGoesOn /\ LikeCalls(calls')
      BY <1>5, <2>2 DEF LoopGoesOn
    <3>5. QED
      BY <1>7, <1>8, <2>1, <3>2, <3>3, <3>4
  <2>3. ASSUME NEW l \in {Settle, Watch}, e.listener = l,
               listeners' = [listeners EXCEPT ![s] = removeEventListeners(@, {l})],
               UNCHANGED <<tableVars, routerVars, calls, left>>, LoopGoesOn
        PROVE  RouterInv'
    <3>1. e.listener # Cleanup
      BY <2>3, ListenersDiffer
    <3>2. s \notin attached'
      BY <1>2, <2>3, <3>1 DEF routerVars
    <3>3. \E L : Shrinks(L)
      BY <2>3, DropShrinks DEF tableVars, routerVars
    <3>4. AtMostOne
      BY <2>3 DEF AtMostOne, tableVars, routerVars, RouterInv, RouterTypes
    <3>5. QED
      BY <1>5, <1>7, <1>8, <2>1, <2>3, <3>1, <3>2, <3>3, <3>4
  <2>4. CASE e.listener = Settle /\ SettleLoop(s)
    <3>1. LoopGoesOn
      BY <2>4 DEF SettleLoop, LoopGoesOn
    <3>2. QED
      BY <2>3, <2>4, <3>1 DEF SettleLoop
  <2>5. CASE e.listener = Watch /\ ResolveOnce(s)
    BY <2>3, <2>5 DEF ResolveOnce, LoopGoesOn
  <2>6. ASSUME NEW p \in Responses, e.listener = CloseListener(p), Disconnect(s, p)
        PROVE  RouterInv'
    <3>1. e.listener # Cleanup
      BY <2>6, ListenersDiffer
    <3>2. s \notin attached
      BY <1>2, <3>1
    <3>3. /\ \E L : Shrinks(L)
          /\ UNCHANGED <<attached, heartbeat, undo, unregistered, loop, live, left>>
      BY <1>8, <2>6, DisconnectShrinks
    <3>4. LikeCalls(calls')
      <4> DEFINE f == Call("application", None)
      <4>1. calls' = <<f>> \o calls
        BY <2>6 DEF Disconnect
      <4>2. f \in Frames /\ f.do # "dispatch"
        BY DEF Frames, Call
      <4> HIDE DEF f
      <4>3. QED
        BY <1>5, <4>1, <4>2, LikePushed
    <3>5. AtMostOne /\ LoopGoesOn
      BY <3>3 DEF AtMostOne, LoopGoesOn, RouterInv, RouterTypes
    <3>6. QED
      BY <1>7, <1>8, <2>1, <3>1, <3>2, <3>3, <3>4, <3>5
  <2>7. QED
    BY <1>8, <2>2, <2>4, <2>5, <2>6 DEF TellNext
<1>9. QED
  BY <1>6, <1>8

\* All were told: the listeners that wanted it once are removed.
LEMMA EndDispatchKeeps ==
  ASSUME RouterInv, NEW s \in Sockets, calls # <<>>, Head(calls) = Call("dispatch", s),
         turn[s] = <<>>, EndDispatch(s), calls' = Tail(calls),
         UNCHANGED <<tableVars, readyState, told, turn, routerVars, loopVars, left>>
  PROVE  RouterInv'
<1> DEFINE D == {e.listener : e \in {x \in spent[s] : x.once}}
<1>1. /\ listeners' = [listeners EXCEPT ![s] = removeEventListeners(@, D)]
      /\ spent' = [spent EXCEPT ![s] = {}]
      /\ reason' = [reason EXCEPT ![s] = "other"]
      /\ UNCHANGED <<live, attached, heartbeat, undo, unregistered, ref, loop, latest, stopped>>
  BY DEF EndDispatch, tableVars, routerVars, loopVars
<1>2. D \in SUBSET {Settle, Watch}
  BY DEF RouterInv, RouterTypes, Entries
<1> HIDE DEF D
<1>3. PICK L : Shrinks(L)
  BY <1>1, <1>2, DropShrinks
<1>4. ListTypes' /\ ListInv'
  BY <1>3, ListShrinks DEF RouterInv
<1>5. calls' \in Seq(Frames) /\ ToSet(calls') \subseteq ToSet(calls)
  BY Popping DEF RouterInv, RouterTypes
<1>6. \A t \in Sockets : CleansUp(calls, t) => CleansUp(calls', t)
  <2>1. \A t : Head(calls) # Call("cleanup", t)
    BY DEF Call
  <2>2. QED
    BY <2>1, CleanUpPopped DEF RouterInv, RouterTypes
<1>7. /\ \A t \in Sockets : DispatchOf(calls', t) => Dispatching(t)
      /\ \A t \in Sockets : t # s => (Dispatching(t) => DispatchOf(calls', t))
  <2>1. ToSet(calls) = {Head(calls)} \cup ToSet(Tail(calls))
    BY Popping DEF RouterInv, RouterTypes
  <2>2. \A t : Call("dispatch", t) = Call("dispatch", s) => t = s
    BY DEF Call
  <2>3. QED
    BY <2>1, <2>2 DEF DispatchOf, Dispatching
<1>8. DispatchTypes'
  BY <1>1 DEF RouterInv, RouterTypes, DispatchTypes, Reasons
<1>9. \A t \in Sockets : /\ spent'[t] = IF t = s THEN {} ELSE spent[t]
                         /\ reason'[t] = IF t = s THEN "other" ELSE reason[t]
  BY <1>1 DEF RouterInv, RouterTypes
<1>10. TurnInv'
  BY <1>7, <1>9 DEF RouterInv, TurnInv, Dispatching
<1>11. OrderInv'
  <2>1. s \notin attached
    <3>1. Dispatching(s)
      BY Popping DEF RouterInv, RouterTypes, Dispatching, DispatchOf
    <3>2. QED
      BY <3>1 DEF RouterInv, OrderInv
  <2>2. ASSUME NEW t \in attached', DispatchOf(calls', t)
        PROVE  turn'[t] # <<>> /\ Head(turn'[t]) = FirstEntry(Cleanup)
    BY <1>1, <1>7, <2>1, <2>2 DEF RouterInv, RouterTypes, OrderInv
  <2>3. ASSUME NEW t \in Sockets, reason'[t] = "goodbye",
               Cleanup \in {x.listener : x \in spent'[t]}
        PROVE  \A p \in Responses : ref'[p] # t
    BY <1>1, <1>9, <2>3 DEF RouterInv, OrderInv
  <2>4. QED
    BY <2>2, <2>3 DEF RouterInv, OrderInv, Dispatching, FirstEntry
<1>12. UndoKept'
  BY <1>1, <1>5, <1>6, UndoStays DEF AtMostOne, LoopGoesOn, StaysClosed, RouterInv, RouterTypes
<1>13. QED
  BY <1>4, <1>8, <1>10, <1>11, <1>12, Together DEF ListsKept

LEMMA Fronting ==
  ASSUME NEW S, NEW q \in Seq(S), q # <<>>
  PROVE  /\ Front(q) \in Seq(S)
         /\ ToSet(q) = ToSet(Front(q)) \cup {Last(q)}
<1> DEFINE r == Front(q)
<1>1. Len(q) \in Nat /\ Len(q) > 0
  OBVIOUS
<1>2. r \in Seq(S) /\ Len(r) = Len(q) - 1 /\ \A i \in 1 .. Len(q) - 1 : r[i] = q[i]
  <2>1. r = [i \in 1 .. Len(q) - 1 |-> q[i]]
    BY <1>1 DEF Front
  <2> HIDE DEF r
  <2>2. QED
    BY <1>1, <2>1
<1> HIDE DEF r
<1>3. DOMAIN q = DOMAIN r \cup {Len(q)}
  BY <1>1, <1>2
<1>4. \A i \in DOMAIN r : r[i] = q[i]
  BY <1>1, <1>2
<1>5. ToSet(q) = ToSet(r) \cup {q[Len(q)]}
  BY <1>3, <1>4 DEF ToSet
<1>6. QED
  BY <1>2, <1>5 DEF Last, r

\* unregister undoes an attachment, or the loop.
LEMMA UndoingKeeps ==
  ASSUME RouterInv, calls # <<>>, Head(calls) = Call("unregister", None),
         undo # <<>>, undo' = Front(undo),
         \/ Last(undo) = UndoLoop /\ StopReconnecting(calls)
         \/ \E s \in Sockets :
              /\ Last(undo) = UndoAttach(s)
              /\ ForceClose(s, "goodbye", <<Call("cleanup", s)>> \o calls)
              /\ UNCHANGED stopped,
         UNCHANGED <<tableVars, attached, heartbeat, unregistered, ref, loop, latest, left>>
  PROVE  RouterInv'
<1>1. undo' \in Seq(Undos) /\ ToSet(undo) = ToSet(undo') \cup {Last(undo)}
  BY Fronting DEF RouterInv, RouterTypes
<1>2. LikeCalls(calls)
  BY Typed, LikeItself
<1>3. CASE Last(undo) = UndoLoop /\ StopReconnecting(calls)
  <2>1. /\ KeepsOrStarts /\ Cleans /\ StaysClosed /\ UNCHANGED listeners
        /\ latest # None => readyState'[latest] = "closed"
    <3>1. CASE (stopped \/ latest = None) /\ calls' = calls /\ UNCHANGED socketVars
      BY <1>2, <3>1, Liking DEF socketVars, StaysClosed, RouterInv, RouterTypes, UndoInv
    <3>2. CASE latest # None /\ ForceClose(latest, "other", calls)
      BY <1>2, <3>2, Typed, Forcing DEF Reasons, RouterTypes
    <3>3. QED
      BY <1>3, <3>1, <3>2 DEF StopReconnecting
  <2>2. ListsKept'
    BY <2>1, ListsStay DEF tableVars
  <2>3. stopped' = TRUE /\ loop # "none"
    BY <1>1, <1>3 DEF StopReconnecting, RouterInv, UndoInv
  <2>4. UndoTypes'
    BY <1>1, <2>1, <2>3 DEF RouterInv, RouterTypes, UndoTypes, Cleans, StaysClosed
  <2>5. \A t \in attached' :
          (~unregistered' /\ UndoAttach(t) \in ToSet(undo')) \/ CleansUp(calls', t)
    BY <1>1, <1>3, <2>1, UndosDiffer DEF Cleans, RouterInv, RouterTypes, UndoInv
  <2>6. UndoInv'
    BY <2>1, <2>3, <2>5 DEF RouterInv, UndoInv, tableVars
  <2>7. QED
    BY <2>2, <2>4, <2>6, Together DEF UndoKept
<1>4. ASSUME NEW s \in Sockets, Last(undo) = UndoAttach(s), UNCHANGED stopped,
             ForceClose(s, "goodbye", <<Call("cleanup", s)>> \o calls)
      PROVE  RouterInv'
  <2> DEFINE clean == Call("cleanup", s)
             rest == <<clean>> \o calls
  <2>1. clean \in Frames /\ clean.do # "dispatch"
    BY DEF Frames, Call
  <2>2. CleansUp(rest, s)
    BY CleanUpAdded DEF RouterInv, RouterTypes
  <2> HIDE DEF clean
  <2>3. LikeCalls(rest)
    BY <1>2, <2>1, LikePushed
  <2>4. calls' = rest \/ calls' = <<Call("dispatch", s)>> \o rest
    BY <1>4 DEF ForceClose, clean
  <2> HIDE DEF rest
  <2>5. KeepsOrStarts /\ Cleans /\ StaysClosed /\ UNCHANGED listeners
    BY <1>4, <2>3, Typed, Forcing DEF Reasons, rest, clean
  <2>6. CleansUp(calls', s)
    BY <2>2, <2>3, <2>4, CleanUpPushed DEF LikeCalls
  <2>7. ListsKept'
    BY <2>5, ListsStay DEF tableVars
  <2>8. UndoTypes'
    BY <1>1, <1>4, <2>5 DEF RouterInv, RouterTypes, UndoTypes, Cleans, StaysClosed
  <2>9. \A t \in attached' :
          (~unregistered' /\ UndoAttach(t) \in ToSet(undo')) \/ CleansUp(calls', t)
    <3> TAKE t \in attached'
    <3>1. t # s => UndoAttach(t) # UndoAttach(s)
      BY UndosDiffer
    <3>2. t \in Sockets /\ t \in attached
      BY DEF RouterInv, RouterTypes
    <3>3. QED
      BY <1>1, <1>4, <2>5, <2>6, <3>1, <3>2 DEF Cleans, RouterInv, UndoInv
  <2>10. UndoLoop \in ToSet(undo') <=> UndoLoop \in ToSet(undo)
    BY <1>1, <1>4, UndosDiffer
  <2>11. UndoInv'
    BY <1>4, <2>5, <2>9, <2>10 DEF RouterInv, RouterTypes, UndoInv, StaysClosed, tableVars
  <2>12. QED
    BY <2>7, <2>8, <2>11, Together DEF UndoKept
<1>5. QED
  BY <1>3, <1>4

\* unregister found nothing more to undo.
LEMMA ReleaseAllKeeps ==
  ASSUME RouterInv, calls # <<>>, Head(calls) = Call("unregister", None),
         undo = <<>>, ReleaseAllChannels, calls' = Tail(calls)
  PROVE  RouterInv'
<1>1. /\ ReleaseResponses(live) /\ listeners' = Detached(live) /\ unregistered' = TRUE
      /\ UNCHANGED <<readyState, told, turn, spent, reason, attached, heartbeat, undo, loop,
                     latest, stopped>>
  BY DEF ReleaseAllChannels, loopVars
<1>2. Head(calls).do = "unregister"
  BY DEF Call
<1>3. LikeCalls(calls')
  BY <1>2, Typed, LikePopped
<1>4. Keeps
  BY <1>1, <1>3, Liking
<1>5. UNCHANGED left /\ \E L : Shrinks(L)
  BY <1>1, ReleaseShrinks
<1>6. ListsKept'
  BY <1>4, <1>5, ListsShrink
<1>7. UndoTypes'
  BY <1>1, <1>3 DEF RouterInv, RouterTypes, UndoTypes, LikeCalls
<1>8. ToSet(undo) = {}
  BY DEF ToSet
<1>9. live' = {}
  BY <1>1 DEF ReleaseResponses, Release
<1>10. \A t \in attached' : CleansUp(calls', t)
  BY <1>1, <1>3, <1>8 DEF LikeCalls, RouterInv, RouterTypes, UndoInv
<1>11. latest # None => readyState[latest] = "closed"
  BY <1>8 DEF RouterInv, UndoInv
<1>12. UndoInv'
  BY <1>1, <1>8, <1>9, <1>10, <1>11 DEF RouterInv, UndoInv
<1>13. QED
  BY <1>6, <1>7, <1>12, Together DEF UndoKept

\* The innermost call goes on.
LEMMA CallKeeps ==
  ASSUME RouterInv, RunCall
  PROVE  RouterInv'
<1> DEFINE call == Head(calls)
           s == call.socket
<1>1. calls # <<>> /\ calls \in Seq(Frames)
  BY DEF RunCall, Quiet, RouterInv, RouterTypes
<1>2. call \in Frames /\ call \in ToSet(calls)
  BY <1>1, Popping
<1>3. /\ call.do \in {"dispatch", "cleanup", "force"} =>
           s \in Sockets /\ call = Call(call.do, s)
      /\ call.do = "unregister" => call = Call("unregister", None)
  BY <1>2 DEF Frames, Call
<1>4. CASE call.do = "dispatch" /\ Dispatch(s)
  <2>1. Dispatching(s) /\ s \in Sockets /\ call = Call("dispatch", s)
    BY <1>2, <1>3, <1>4 DEF Dispatching, DispatchOf
  <2>2. CASE turn[s] # <<>> /\ TellNext(s)
    BY <2>1, <2>2, TellKeeps
  <2>3. CASE turn[s] = <<>> /\ EndDispatch(s)
    BY <1>1, <1>4, <2>1, <2>3, EndDispatchKeeps DEF Dispatch
  <2>4. QED
    BY <1>4, <2>2, <2>3 DEF Dispatch
<1>5. CASE call.do = "cleanup" /\ RunCleanup(s)
  <2>1. s \in Sockets /\ call = Call("cleanup", s)
    BY <1>3, <1>5
  <2>2. /\ CleanupAttachment(s, "other") /\ calls' = Tail(calls)
        /\ UNCHANGED <<readyState, told, turn, spent, reason, loopVars>>
    BY <1>5 DEF RunCleanup
  <2>3. calls' \in Seq(Frames) /\ ToSet(calls) = {call} \cup ToSet(calls')
    BY <1>1, <2>2, Popping
  <2>4. \A t : Call("dispatch", t) # call
    BY <2>1 DEF Call
  <2>5. \A t : Call("cleanup", t) = call => t = s
    BY <2>1 DEF Call
  <2>6. \A t \in Sockets : DispatchOf(calls', t) <=> Dispatching(t)
    BY <2>3, <2>4 DEF DispatchOf, Dispatching
  <2>7. \A t \in Sockets : t # s => (CleansUp(calls, t) => CleansUp(calls', t))
    BY <1>1, <2>2, <2>5, CleanUpPopped
  <2>8. QED
    BY <2>1, <2>2, <2>3, <2>6, <2>7, CleanupKeeps
<1>6. CASE call.do = "force" /\ RunForce(s)
  <2>1. LikeCalls(Tail(calls))
    BY <1>1, <1>6, Typed, LikePopped
  <2>2. LoopGoesOn
    BY <1>6 DEF RunForce, loopVars, LoopGoesOn
  <2>3. QED
    BY <1>3, <1>6, <2>1, <2>2, ForceKeeps DEF RunForce, loopVars
<1>7. CASE call.do = "unregister" /\ RunUnregister
  <2>1. call = Call("unregister", None)
    BY <1>3, <1>7
  <2>2. CASE undo # <<>>
    BY <1>1, <1>7, <2>1, <2>2, UndoingKeeps DEF RunUnregister
  <2>3. CASE undo = <<>>
    BY <1>1, <1>7, <2>1, <2>3, ReleaseAllKeeps DEF RunUnregister
  <2>4. QED
    BY <2>2, <2>3
<1>8. QED
  BY <1>4, <1>5, <1>6, <1>7 DEF RunCall

LEMMA ReturnKeeps ==
  ASSUME RouterInv, CallUnregister \/ ReturnToRouter \/ UNCHANGED vars
  PROVE  RouterInv'
<1>1. UNCHANGED <<tableVars, readyState, told, listeners, turn, spent, reason, routerVars,
                  loop, latest, stopped, left>>
  BY DEF CallUnregister, ReturnToRouter, vars, socketVars, loopVars
<1>2. LikeCalls(calls')
  <2>1. CASE CallUnregister
    <3> DEFINE f == Call("unregister", None)
    <3>1. f \in Frames /\ f.do # "dispatch"
      BY DEF Frames, Call
    <3>2. calls' = <<f>> \o Rest /\ InApplication
      BY <2>1 DEF CallUnregister
    <3> HIDE DEF f
    <3>3. QED
      BY <3>1, <3>2, Typed, LikeRest, LikePushed
  <2>2. CASE ReturnToRouter
    BY <2>2, Typed, LikePopped DEF ReturnToRouter, Quiet
  <2>3. CASE UNCHANGED vars
    BY <2>3, Typed, LikeItself DEF vars
  <2>4. QED
    BY <2>1, <2>2, <2>3
<1>3. KeepsOrStarts /\ Cleans
  BY <1>1, <1>2, Liking
<1>4. StaysClosed /\ LoopGoesOn
  BY <1>1 DEF StaysClosed, LoopGoesOn, RouterInv, RouterTypes
<1>5. QED
  BY <1>1, <1>3, <1>4, Usual

LEMMA RouterKeeps == RouterInv /\ LookupIsExact /\ [Next]_vars => RouterInv'
<1> SUFFICES ASSUME RouterInv, LookupIsExact, [Next]_vars PROVE RouterInv'
  OBVIOUS
<1>1. ASSUME NEW p \in Responses, EndResponse(p) PROVE RouterInv'
  BY <1>1, EndKeeps DEF EndResponse
<1>2. QED
  BY <1>1, ApplicationKeeps, PeerKeeps, TimerKeeps, CallKeeps, ReturnKeeps DEF Next

-----------------------------------------------------------------------------
(* The theorems of the sockets.                                            *)

\* For any sockets, clients and request ids, and however calls nest.
THEOREM RouterInvHolds == Spec => []RouterInv
<1>1. Init => RouterInv
  BY RouterStarts
<1>2. RouterInv /\ LookupIsExact /\ [Next]_vars => RouterInv'
  BY RouterKeeps
<1>3. QED
  BY <1>1, <1>2, RouterLookupIsExact, PTL DEF Spec

\* A socket that said goodbye leaves no response behind: its attachment, which
\* releases them, is told before any of them is disconnected.
THEOREM GoodbyesRelease == Spec => []GoodbyeReleases
<1>1. RouterInv => GoodbyeReleases
  BY DEF RouterInv, OrderInv, GoodbyeReleases
<1>2. QED
  BY <1>1, RouterInvHolds, PTL

\* When unregister has returned nothing is left of what was attached, whatever
\* ran while it closed the sockets.
THEOREM UnregisteredHoldNothing == Spec => []UnregisteredHoldsNothing
<1>1. RouterInv => UnregisteredHoldsNothing
  <2> SUFFICES ASSUME RouterInv, unregistered, Call("unregister", None) \notin ToSet(calls)
               PROVE  /\ attached = {} /\ live = {}
                      /\ \A s \in Sockets : heartbeat[s] = "off" /\ Cleanup \notin Names(listeners[s])
                      /\ latest # None => readyState[latest] = "closed"
    BY DEF UnregisteredHoldsNothing
  <2>1. \A s : ~CleansUp(calls, s)
    BY DEF CleansUp, ToSet
  <2>2. attached = {} /\ live = {}
    BY <2>1 DEF RouterInv, RouterTypes, UndoInv
  <2>3. QED
    BY <2>2 DEF RouterInv, ListInv, UndoInv
<1>2. QED
  BY <1>1, RouterInvHolds, PTL

-----------------------------------------------------------------------------
(* How closes are heard: the router implements CloseNotice.                *)

Owes(s) == {e.listener : e \in {x \in ToSet(turn[s]) : StillListed(s, x)}}
Hears(s) == {e.listener : e \in spent[s]}

\* Listeners are removed, by name.
LEMMA OwesLess ==
  ASSUME RouterTypes, RouterTypes', NEW t \in Sockets, turn'[t] = turn[t],
         NEW L, Without(listeners[t], listeners'[t], L)
  PROVE  Owes(t)' = Owes(t) \cap Names(listeners'[t])
<1>1. ToSet(listeners'[t]) = {e \in ToSet(listeners[t]) : e.listener \notin L}
  BY DEF Without
<1>2. Names(listeners'[t]) = {e.listener : e \in ToSet(listeners'[t])}
  BY NamesAre DEF RouterTypes
<1>3. QED
  BY <1>1, <1>2 DEF Owes, StillListed

LEMMA OwesSame ==
  ASSUME RouterTypes, NEW t \in Sockets, turn'[t] = turn[t], listeners'[t] = listeners[t]
  PROVE  Owes(t)' = Owes(t) \cap Names(listeners'[t])
<1>1. Names(listeners[t]) = {e.listener : e \in ToSet(listeners[t])}
  BY NamesAre DEF RouterTypes
<1>2. QED
  BY <1>1 DEF Owes, StillListed

LEMMA OwesNothing ==
  ASSUME RouterInv, NEW t \in Sockets, ~Dispatching(t)
  PROVE  turn[t] = <<>> /\ Owes(t) = {}
<1>1. ToSet(<<>>) = {}
  BY DEF ToSet
<1>2. QED
  BY <1>1 DEF RouterInv, TurnInv, Owes

\* Listeners come and go.
LEMMA NoticeChange ==
  ASSUME RouterTypes, RouterTypes', UNCHANGED <<told, turn, spent>>,
         NEW L, \A t \in Sockets : Without(listeners[t], listeners'[t], L[t])
  PROVE  Notice!Change
<1>1. \A t \in Sockets : Owes(t)' = Owes(t) \cap Names(listeners'[t])
  BY OwesLess
<1>2. QED
  BY <1>1 DEF Notice!Change, Owes

LEMMA NoticeStays ==
  ASSUME RouterTypes, UNCHANGED <<told, turn, spent, listeners>>
  PROVE  Notice!Change
<1>1. \A t \in Sockets : Owes(t)' = Owes(t) \cap Names(listeners'[t])
  BY OwesSame
<1>2. QED
  BY <1>1 DEF Notice!Change, Owes

\* A close is told to all that are listed.
LEMMA NoticeClose ==
  ASSUME RouterTypes, NEW s \in Sockets, Starts(s), UNCHANGED listeners
  PROVE  Notice!Close(s)
<1>1. Names(listeners[s]) = {e.listener : e \in ToSet(listeners[s])}
  BY NamesAre DEF RouterTypes
<1>2. \A t \in Sockets : turn'[t] = IF t = s THEN listeners[s] ELSE turn[t]
  BY DEF Starts, RouterTypes
<1>3. \A t \in Sockets : Owes(t)' = IF t = s THEN Names(listeners[s]) ELSE Owes(t)
  BY <1>1, <1>2 DEF Owes, StillListed
<1>4. QED
  BY <1>3 DEF Notice!Close, Owes, Starts

LEMMA NoticeUsual ==
  ASSUME RouterTypes, KeepsOrStarts, UNCHANGED listeners
  PROVE  Notice!Next
BY NoticeStays, NoticeClose DEF KeepsOrStarts, Keeps, Notice!Next

\* A name stands for a new socket.
LEMMA NoticeRenew ==
  ASSUME RouterInv, RouterTypes', NEW s \in Sockets, Disposable(s), told' = told \ {s},
         UNCHANGED <<turn, spent>>,
         \A t \in Sockets : t # s => listeners'[t] = listeners[t]
  PROVE  Notice!Renew(s)
<1>1. listeners[s] = <<>> /\ ~Dispatching(s)
  <2>1. \A call \in ToSet(calls) : call.socket # s
    BY DEF Disposable
  <2>2. QED
    BY <2>1 DEF Disposable, Call, Dispatching, DispatchOf
<1>2. turn[s] = <<>> /\ Owes(s) = {} /\ Owes(s)' = {}
  <2>1. ToSet(<<>>) = {}
    BY DEF ToSet
  <2>2. QED
    BY <1>1, <2>1, OwesNothing DEF Owes
<1>3. Names(listeners[s]) = {}
  BY <1>1 DEF Names
<1>4. \A t \in Sockets : Owes(t)' = Owes(t) \cap Names(listeners'[t])
  BY <1>2, OwesSame, Typed
<1>5. QED
  BY <1>2, <1>3, <1>4 DEF Notice!Renew, Owes

\* The listener that has its turn is told, and listens no more.
LEMMA NoticeTell ==
  ASSUME RouterTypes, RouterTypes', NEW s \in Sockets, turn[s] # <<>>,
         turn' = [turn EXCEPT ![s] = Tail(@)], UNCHANGED told,
         NEW e, e = Head(turn[s]), StillListed(s, e), spent' = [spent EXCEPT ![s] = @ \cup {e}],
         NEW L, \A t \in Sockets : Without(listeners[t], listeners'[t], L[t]),
         e.listener \notin Names(listeners'[s])
  PROVE  Notice!Tell(s)
<1> DEFINE l == e.listener
<1>1. ToSet(turn[s]) = {e} \cup ToSet(turn'[s])
  BY Popping DEF RouterTypes
<1>2. l \in Owes(s)
  BY <1>1 DEF Owes
<1>3. Hears(s)' = Hears(s) \cup {l} /\ \A t \in Sockets : t # s => Hears(t)' = Hears(t)
  BY DEF Hears, RouterTypes
<1>4. Owes(s)' = Owes(s) \cap Names(listeners'[s])
  <2>1. ToSet(listeners'[s]) = {x \in ToSet(listeners[s]) : x.listener \notin L[s]}
    BY DEF Without
  <2>2. Names(listeners'[s]) = {x.listener : x \in ToSet(listeners'[s])}
    BY NamesAre DEF RouterTypes
  <2>3. QED
    BY <1>1, <2>1, <2>2 DEF Owes, StillListed
<1>5. \A t \in Sockets : t # s => Owes(t)' = Owes(t) \cap Names(listeners'[t])
  BY OwesLess DEF RouterTypes
<1>6. \A t \in Sockets :
        Owes(t)' = Owes(t) \cap (Names(listeners'[t]) \ (IF t = s THEN {l} ELSE {}))
  BY <1>4, <1>5
<1> HIDE DEF l
<1>7. [t \in Sockets |-> Hears(t)]' = [[t \in Sockets |-> Hears(t)] EXCEPT ![s] = @ \cup {l}]
  BY <1>3
<1>8. [t \in Sockets |-> Owes(t)][s] = Owes(s)
  OBVIOUS
<1>9. \A t \in Sockets :
        /\ [q \in Sockets |-> Owes(q)]'[t] = Owes(t)'
        /\ [q \in Sockets |-> Owes(q)][t] = Owes(t)
        /\ [q \in Sockets |-> Names(listeners[q])]'[t] = Names(listeners'[t])
  OBVIOUS
<1>10. \E m \in [t \in Sockets |-> Owes(t)][s] :
         /\ [t \in Sockets |-> Hears(t)]' = [[t \in Sockets |-> Hears(t)] EXCEPT ![s] = @ \cup {m}]
         /\ \A t \in Sockets :
              [q \in Sockets |-> Owes(q)]'[t] =
                [q \in Sockets |-> Owes(q)][t] \cap
                  ([q \in Sockets |-> Names(listeners[q])]'[t] \ (IF t = s THEN {m} ELSE {}))
         /\ UNCHANGED told
  <2>1. l \in [t \in Sockets |-> Owes(t)][s]
    BY <1>2, <1>8
  <2>2. \A t \in Sockets :
          [q \in Sockets |-> Owes(q)]'[t] =
            [q \in Sockets |-> Owes(q)][t] \cap
              ([q \in Sockets |-> Names(listeners[q])]'[t] \ (IF t = s THEN {l} ELSE {}))
    BY <1>6, <1>9, Zenon
  <2>3. QED
    BY <1>7, <2>1, <2>2, Zenon
<1>11. QED
  BY <1>10, Zenon DEF Notice!Tell, Owes, Hears

LEMMA NoticePass ==
  ASSUME RouterTypes, NEW s \in Sockets, turn[s] # <<>>,
         turn' = [turn EXCEPT ![s] = Tail(@)], UNCHANGED <<told, spent, listeners>>,
         ~StillListed(s, Head(turn[s]))
  PROVE  Notice!Change
<1>1. ToSet(turn[s]) = {Head(turn[s])} \cup ToSet(turn'[s])
  BY Popping DEF RouterTypes
<1>2. \A t \in Sockets : t # s => turn'[t] = turn[t]
  BY DEF RouterTypes
<1>3. Names(listeners[s]) = {x.listener : x \in ToSet(listeners[s])}
  BY NamesAre DEF RouterTypes
<1>4. Owes(s)' = Owes(s) \cap Names(listeners'[s])
  BY <1>1, <1>3 DEF Owes, StillListed
<1>5. \A t \in Sockets : Owes(t)' = Owes(t) \cap Names(listeners'[t])
  BY <1>2, <1>4, OwesSame
<1>6. QED
  BY <1>5 DEF Notice!Change, Owes

\* All were told.
LEMMA NoticeDone ==
  ASSUME RouterTypes, RouterTypes', NEW s \in Sockets, turn[s] = <<>>, UNCHANGED <<told, turn>>,
         spent' = [spent EXCEPT ![s] = {}],
         NEW L, \A t \in Sockets : Without(listeners[t], listeners'[t], L[t])
  PROVE  Notice!Done(s)
<1>1. Owes(s) = {}
  <2>1. ToSet(<<>>) = {}
    BY DEF ToSet
  <2>2. QED
    BY <2>1 DEF Owes
<1>2. \A t \in Sockets : Owes(t)' = Owes(t) \cap Names(listeners'[t])
  BY OwesLess
<1>3. \A t \in Sockets : Hears(t)' = IF t = s THEN {} ELSE Hears(t)
  BY DEF Hears, RouterTypes
<1>4. QED
  BY <1>1, <1>2, <1>3 DEF Notice!Done, Owes, Hears

\* While nothing is told, whatever happens to the lists is a change of them.
LEMMA NoticeQuiet ==
  ASSUME RouterInv, RouterInv', Quiet, UNCHANGED <<told, turn, spent, calls>>
  PROVE  Notice!Change
<1>1. calls = <<>> /\ ToSet(<<>>) = {}
  BY DEF Quiet, ToSet
<1>2. ASSUME NEW t \in Sockets PROVE Owes(t) = {} /\ Owes(t)' = {}
  <2>1. ~Dispatching(t)
    BY <1>1 DEF Dispatching, DispatchOf
  <2>2. turn[t] = <<>> /\ Owes(t) = {}
    BY <2>1, OwesNothing
  <2>3. Owes(t)' = {}
    BY <1>1, <2>2 DEF Owes
  <2>4. QED
    BY <2>2, <2>3
<1>3. \A t \in Sockets : Owes(t)' = Owes(t) \cap Names(listeners'[t])
  BY <1>2
<1>4. QED
  BY <1>3 DEF Notice!Change, Owes

\* Listeners of one socket are removed.
LEMMA Dropping ==
  ASSUME RouterTypes, NEW s \in Sockets, NEW D,
         listeners' = [listeners EXCEPT ![s] = removeEventListeners(@, D)]
  PROVE  /\ \E L : \A t \in Sockets : Without(listeners[t], listeners'[t], L[t])
         /\ \A l \in D : l \notin Names(listeners'[s])
<1> DEFINE L == [t \in Sockets |-> IF t = s THEN D ELSE {}]
<1>1. Without(listeners[s], listeners'[s], D)
  BY Removing DEF RouterTypes
<1>2. \A t \in Sockets : Without(listeners[t], listeners'[t], L[t])
  BY <1>1, WithoutNone DEF RouterTypes
<1>3. \A l \in D : l \notin Names(listeners'[s])
  BY <1>1, NamesAre DEF Without
<1>4. QED
  BY <1>2, <1>3

LEMMA NoticeForce ==
  ASSUME RouterTypes, NEW s \in Sockets, NEW why \in Reasons, NEW rest, LikeCalls(rest),
         ForceClose(s, why, rest)
  PROVE  Notice!Next
BY Forcing, NoticeUsual

LEMMA NoticeChanges ==
  ASSUME Notice!Change
  PROVE  Notice!Next
BY DEF Notice!Next

LEMMA NoticeCleanup ==
  ASSUME RouterInv, RouterInv', NEW s \in Sockets, CleanupAttachment(s, "other"),
         UNCHANGED <<told, turn, spent>>
  PROVE  Notice!Next
<1>1. PICK L : Shrinks(L)
  BY CleanupShrinks DEF Reasons
<1>2. Notice!Change
  BY <1>1, Typed, NoticeChange DEF Shrinks, RouterInv
<1>3. QED
  BY <1>2, NoticeChanges

LEMMA NoticeApplication ==
  ASSUME RouterInv, RouterInv', NEW s \in Sockets, Application(s)
  PROVE  Notice!Next
<1>1. ASSUME NEW n \in {"open", "closed"}, AttachClient(s, n)
      PROVE  Notice!Next
  <2>1. /\ Disposable(s) /\ told' = told \ {s} /\ UNCHANGED <<turn, spent>>
        /\ \A t \in Sockets : t # s => listeners'[t] = listeners[t]
    BY <1>1 DEF AttachClient, Attach, NewSocket, RouterInv, RouterTypes
  <2>2. QED
    BY <2>1, NoticeRenew DEF RouterInv, Notice!Next
<1>2. CASE DetachClient(s)
  BY <1>2, NoticeCleanup DEF DetachClient
<1>3. CASE ForceCloseByApplication(s)
  <2>1. LikeCalls(Rest)
    BY <1>3, Typed, LikeRest DEF ForceCloseByApplication
  <2>2. QED
    BY <1>3, <2>1, Typed, NoticeForce DEF ForceCloseByApplication, Reasons
<1>4. CASE CloseByApplication(s)
  BY <1>4, Typed, NoticeStays, NoticeChanges DEF CloseByApplication
<1>5. QED
  BY <1>1, <1>2, <1>3, <1>4 DEF Application

LEMMA NoticePeer ==
  ASSUME RouterInv, RouterInv', NEW s \in Sockets, Peer(s)
  PROVE  Notice!Next
<1>1. ASSUME NEW c \in Clients, NEW r \in RequestIds, OnRequest(s, c, r)
      PROVE  Notice!Next
  BY <1>1, NoticeQuiet, NoticeChanges DEF OnRequest
<1>2. ASSUME NEW c \in Clients, SessionRelease(s, c)
      PROVE  Notice!Next
  BY <1>2, NoticeQuiet, NoticeChanges DEF SessionRelease, EndResponses
<1>3. CASE Ping(s) \/ FallSilent(s) \/ Vanish(s) \/ NativeOpen(s)
  BY <1>3, Typed, NoticeStays, NoticeChanges DEF Ping, FallSilent, Vanish, NativeOpen, socketVars
<1>4. CASE NativeError(s)
  BY <1>4, NoticeQuiet, NoticeChanges DEF NativeError
<1>5. ASSUME NEW why \in Reasons, NativeClose(s, why)
      PROVE  Notice!Next
  <2>1. UNCHANGED <<listeners, spent>>
    BY <1>5 DEF NativeClose
  <2>2. CASE NativeCloseHandler(s) /\ s \notin told
    <3>1. StartDispatch(s, why) /\ calls' = <<Call("dispatch", s)>> /\ calls = <<>>
      BY <1>5, <2>2 DEF NativeClose, Quiet
    <3>2. calls' = <<Call("dispatch", s)>> \o calls
      BY <3>1
    <3>3. KeepsOrStarts
      BY <2>1, <2>2, <3>1, <3>2, Starting, Typed, LikeItself
    <3>4. QED
      BY <2>1, <3>3, Typed, NoticeUsual
  <2>3. CASE ~(NativeCloseHandler(s) /\ s \notin told)
    <3>1. UNCHANGED <<told, turn>>
      BY <1>5, <2>3 DEF NativeClose
    <3>2. QED
      BY <2>1, <3>1, Typed, NoticeStays, NoticeChanges
  <2>4. QED
    BY <2>2, <2>3
<1>6. QED
  BY <1>1, <1>2, <1>3, <1>4, <1>5 DEF Peer

LEMMA NoticeAttempt ==
  ASSUME RouterInv, RouterInv', NEW more, Attempt(more)
  PROVE  Notice!Next
<1>1. CASE AttemptThrows(more)
  BY <1>1, Typed, NoticeStays, NoticeChanges DEF AttemptThrows, socketVars
<1>2. ASSUME NEW s \in Sockets, NEW n \in {"connecting", "closed"}, AttemptConnects(s, n, more)
      PROVE  Notice!Next
  <2>1. /\ Disposable(s) /\ told' = told \ {s} /\ UNCHANGED <<turn, spent>>
        /\ \A t \in Sockets : t # s => listeners'[t] = listeners[t]
    BY <1>2 DEF AttemptConnects, Attach, NewSocket, RouterInv, RouterTypes
  <2>2. QED
    BY <2>1, NoticeRenew DEF RouterInv, Notice!Next
<1>3. QED
  BY <1>1, <1>2 DEF Attempt

LEMMA NoticeStop ==
  ASSUME RouterInv, NEW rest, LikeCalls(rest), StopReconnecting(rest)
  PROVE  Notice!Next
<1>1. CASE UNCHANGED socketVars
  BY <1>1, Typed, NoticeStays, NoticeChanges DEF socketVars
<1>2. CASE latest # None /\ ForceClose(latest, "other", rest)
  BY <1>2, Typed, NoticeForce DEF Reasons, RouterTypes
<1>3. QED
  BY <1>1, <1>2 DEF StopReconnecting

LEMMA NoticeTimer ==
  ASSUME RouterInv, RouterInv',
         \/ \E s \in Sockets : OpenTimeout(s) \/ CheckPing(s)
         \/ AutoReconnect \/ StopByApplication
         \/ Reconnect \/ FinishAttempt \/ EndLoop
  PROVE  Notice!Next
<1>1. ASSUME NEW s \in Sockets, OpenTimeout(s) \/ CheckPing(s)
      PROVE  Notice!Next
  <2>1. calls = <<>> /\ (ForceClose(s, "other", <<>>) \/ UNCHANGED socketVars)
    BY <1>1 DEF OpenTimeout, CheckPing, Quiet
  <2>2. LikeCalls(<<>>)
    BY <2>1, Typed, LikeItself
  <2>3. CASE ForceClose(s, "other", <<>>)
    BY <2>2, <2>3, Typed, NoticeForce DEF Reasons
  <2>4. CASE UNCHANGED socketVars
    BY <2>4, Typed, NoticeStays, NoticeChanges DEF socketVars
  <2>5. QED
    BY <2>1, <2>3, <2>4
<1>2. CASE AutoReconnect \/ Reconnect
  BY <1>2, NoticeAttempt DEF AutoReconnect, Reconnect
<1>3. CASE StopByApplication
  <2>1. LikeCalls(Rest)
    BY <1>3, Typed, LikeRest DEF StopByApplication
  <2>2. QED
    BY <1>3, <2>1, NoticeStop DEF StopByApplication
<1>4. CASE FinishAttempt \/ EndLoop
  BY <1>4, Typed, NoticeStays, NoticeChanges DEF FinishAttempt, EndLoop, socketVars
<1>5. QED
  BY <1>1, <1>2, <1>3, <1>4

LEMMA NoticeTurn ==
  ASSUME RouterInv, RouterInv', NEW s \in Sockets, Dispatching(s), turn[s] # <<>>, TellNext(s)
  PROVE  Notice!Next
<1> DEFINE e == Head(turn[s])
<1>1. turn' = [turn EXCEPT ![s] = Tail(@)] /\ UNCHANGED told
  BY DEF TellNext
<1>2. CASE ~StillListed(s, e)
  <2>1. UNCHANGED <<listeners, spent>>
    BY <1>2 DEF TellNext
  <2>2. QED
    BY <1>1, <1>2, <2>1, Typed, NoticePass, NoticeChanges
<1>3. CASE StillListed(s, e)
  <2>1. spent' = [spent EXCEPT ![s] = @ \cup {e}]
    BY <1>3 DEF TellNext
  <2>2. ASSUME NEW L, \A t \in Sockets : Without(listeners[t], listeners'[t], L[t]),
               e.listener \notin Names(listeners'[s])
        PROVE  Notice!Next
    <3>1. RouterTypes /\ RouterTypes'
      BY DEF RouterInv
    <3> HIDE DEF e
    <3>2. e = Head(turn[s])
      BY DEF e
    <3>3. Notice!Tell(s)
      BY <1>1, <1>3, <2>1, <2>2, <3>1, <3>2, NoticeTell
    <3>4. QED
      BY <3>3 DEF Notice!Next
  <2>3. ASSUME NEW l, e.listener = l,
               listeners' = [listeners EXCEPT ![s] = removeEventListeners(@, {l})]
        PROVE  Notice!Next
    BY <2>2, <2>3, Dropping, Typed
  <2>4. CASE e.listener = Cleanup /\ CleanupAttachment(s, reason[s])
    <3>1. reason[s] \in Reasons
      BY DEF RouterInv, RouterTypes
    <3>2. CleansOne(s) /\ \E L : Shrinks(L)
      BY <2>4, <3>1, CleanupShrinks
    <3>3. Cleanup \notin Names(listeners'[s])
      BY <3>2 DEF CleansOne, RouterInv, ListInv
    <3>4. QED
      BY <2>2, <2>4, <3>2, <3>3 DEF Shrinks
  <2>5. CASE e.listener = Settle /\ SettleLoop(s)
    BY <2>3, <2>5 DEF SettleLoop
  <2>6. CASE e.listener = Watch /\ ResolveOnce(s)
    BY <2>3, <2>6 DEF ResolveOnce
  <2>7. ASSUME NEW p \in Responses, e.listener = CloseListener(p), Disconnect(s, p)
        PROVE  Notice!Next
    BY <2>3, <2>7 DEF Disconnect
  <2>8. QED
    BY <1>3, <2>4, <2>5, <2>6, <2>7 DEF TellNext
<1>4. QED
  BY <1>2, <1>3

LEMMA NoticeEnd ==
  ASSUME RouterInv, RouterInv', NEW s \in Sockets, turn[s] = <<>>, EndDispatch(s),
         UNCHANGED <<told, turn>>
  PROVE  Notice!Next
<1>1. PICK L : \A t \in Sockets : Without(listeners[t], listeners'[t], L[t])
  BY Dropping, Typed DEF EndDispatch
<1>2. Notice!Done(s)
  BY <1>1, NoticeDone DEF EndDispatch, RouterInv
<1>3. QED
  BY <1>2 DEF Notice!Next

LEMMA NoticeCall ==
  ASSUME RouterInv, RouterInv', RunCall
  PROVE  Notice!Next
<1> DEFINE call == Head(calls)
           s == call.socket
<1>1. calls # <<>> /\ calls \in Seq(Frames)
  BY DEF RunCall, Quiet, RouterInv, RouterTypes
<1>2. call \in Frames /\ call \in ToSet(calls)
  BY <1>1, Popping
<1>3. call.do \in {"dispatch", "cleanup", "force"} => s \in Sockets /\ call = Call(call.do, s)
  BY <1>2 DEF Frames, Call
<1>4. CASE call.do = "dispatch" /\ Dispatch(s)
  <2>1. Dispatching(s) /\ s \in Sockets
    BY <1>2, <1>3, <1>4 DEF Dispatching, DispatchOf
  <2>2. CASE turn[s] # <<>> /\ TellNext(s)
    BY <2>1, <2>2, NoticeTurn
  <2>3. CASE turn[s] = <<>> /\ EndDispatch(s) /\ UNCHANGED <<told, turn>>
    BY <2>1, <2>3, NoticeEnd
  <2>4. QED
    BY <1>4, <2>2, <2>3 DEF Dispatch
<1>5. CASE call.do = "cleanup" /\ RunCleanup(s)
  BY <1>3, <1>5, NoticeCleanup DEF RunCleanup
<1>6. CASE call.do = "force" /\ RunForce(s)
  <2>1. LikeCalls(Tail(calls))
    BY <1>1, <1>6, Typed, LikePopped
  <2>2. QED
    BY <1>3, <1>6, <2>1, Typed, NoticeForce DEF RunForce, Reasons
<1>7. CASE call.do = "unregister" /\ RunUnregister
  <2>1. LikeCalls(calls)
    BY Typed, LikeItself
  <2>2. CASE StopReconnecting(calls)
    BY <2>1, <2>2, NoticeStop
  <2>3. ASSUME NEW t \in Sockets, ForceClose(t, "goodbye", <<Call("cleanup", t)>> \o calls)
        PROVE  Notice!Next
    <3> DEFINE clean == Call("cleanup", t)
    <3>1. clean \in Frames /\ clean.do # "dispatch"
      BY DEF Frames, Call
    <3> HIDE DEF clean
    <3>2. LikeCalls(<<clean>> \o calls)
      BY <2>1, <3>1, LikePushed
    <3>3. QED
      BY <2>3, <3>2, Typed, NoticeForce DEF Reasons, clean
  <2>4. CASE ReleaseAllChannels
    <3>1. /\ ReleaseResponses(live) /\ listeners' = Detached(live)
          /\ UNCHANGED <<told, turn, spent, attached>>
      BY <2>4 DEF ReleaseAllChannels
    <3>2. PICK L : Shrinks(L)
      BY <3>1, ReleaseShrinks
    <3>3. Notice!Change
      BY <3>1, <3>2, NoticeChange DEF Shrinks, RouterInv
    <3>4. QED
      BY <3>3, NoticeChanges
  <2>5. QED
    BY <1>7, <2>2, <2>3, <2>4 DEF RunUnregister
<1>8. QED
  BY <1>4, <1>5, <1>6, <1>7 DEF RunCall

LEMMA NoticeStep == RouterInv /\ RouterInv' /\ [Next]_vars => [Notice!Next]_(Notice!vars)
<1> SUFFICES ASSUME RouterInv, RouterInv', [Next]_vars PROVE Notice!Next
  OBVIOUS
<1>1. ASSUME NEW p \in Responses, EndResponse(p) PROVE Notice!Next
  BY <1>1, NoticeQuiet, NoticeChanges DEF EndResponse, EndResponses
<1>2. CASE CallUnregister \/ ReturnToRouter \/ UNCHANGED vars
  <2>1. UNCHANGED socketVars
    BY <1>2 DEF CallUnregister, ReturnToRouter, vars
  <2>2. QED
    BY <2>1, Typed, NoticeStays, NoticeChanges DEF socketVars
<1>3. QED
  BY <1>1, <1>2, NoticeApplication, NoticePeer, NoticeTimer, NoticeCall DEF Next

\* The sockets of the router implement CloseNotice: however the listeners of any
\* sockets remove and add listeners and close sockets while they are told, each
\* close is heard once, by all that are listed when their turn comes, and by
\* nobody else.
THEOREM ImplementsCloseNotice == Spec => CloseNotices
<1>1. Init => Notice!Init
  <2> SUFFICES ASSUME Init PROVE Notice!Init
    OBVIOUS
  <2>1. Names(<<>>) = {} /\ ToSet(<<>>) = {}
    BY DEF Names, ToSet
  <2>2. \A s \in Sockets : listeners[s] = <<>> /\ turn[s] = <<>> /\ spent[s] = {}
    BY DEF Init, SocketInit
  <2>3. \A s \in Sockets : Names(listeners[s]) = {} /\ Owes(s) = {} /\ Hears(s) = {}
    BY <2>1, <2>2 DEF Owes, Hears
  <2>4. told = {}
    BY DEF Init, SocketInit
  <2>5. QED
    BY <2>3, <2>4 DEF Notice!Init, Owes, Hears
<1>2. RouterInv /\ RouterInv' /\ [Next]_vars => [Notice!Next]_(Notice!vars)
  BY NoticeStep
<1>3. QED
  BY <1>1, <1>2, RouterInvHolds, PTL DEF Spec, CloseNotices, Notice!Spec

-----------------------------------------------------------------------------
(* The type invariant.                                                     *)

PeersTyped == silent \subseteq Sockets /\ gone \subseteq Sockets

LEMMA PeersStayTyped == PeersTyped /\ [Next]_vars => PeersTyped'
<1> SUFFICES ASSUME PeersTyped, [Next]_vars PROVE PeersTyped'
  OBVIOUS
<1>1. ASSUME NEW s \in Sockets, Application(s) PROVE PeersTyped'
  BY <1>1 DEF Application, AttachClient, Attach, DetachClient, ForceCloseByApplication,
              CloseByApplication, PeersTyped
<1>2. ASSUME NEW s \in Sockets, Peer(s) PROVE PeersTyped'
  BY <1>2 DEF Peer, OnRequest, SessionRelease, EndResponses, Ping, FallSilent, Vanish, NativeOpen,
              NativeError, NativeClose, PeersTyped
<1>3. ASSUME NEW s \in Sockets, OpenTimeout(s) \/ CheckPing(s) PROVE PeersTyped'
  BY <1>3 DEF OpenTimeout, CheckPing, PeersTyped
<1>4. CASE AutoReconnect \/ Reconnect
  BY <1>4 DEF AutoReconnect, Reconnect, Attempt, AttemptThrows, AttemptConnects, Attach, PeersTyped
<1>5. CASE StopByApplication \/ FinishAttempt \/ EndLoop \/ CallUnregister \/ ReturnToRouter
  BY <1>5 DEF StopByApplication, FinishAttempt, EndLoop, CallUnregister, ReturnToRouter, PeersTyped
<1>6. CASE RunCall
  BY <1>6 DEF RunCall, Dispatch, TellNext, RunCleanup, RunForce, RunUnregister,
              ReleaseAllChannels, PeersTyped
<1>7. ASSUME NEW p \in Responses, EndResponse(p) PROVE PeersTyped'
  BY <1>7 DEF EndResponse, EndResponses, PeersTyped
<1>8. CASE UNCHANGED vars
  BY <1>8 DEF vars, PeersTyped
<1>9. QED
  BY <1>1, <1>2, <1>3, <1>4, <1>5, <1>6, <1>7, <1>8 DEF Next

\* The state of the sockets, of the call stack and of the table has its types.
THEOREM RouterTyped == Spec => []TypeOK
<1>1. Init => PeersTyped
  BY DEF Init, PeersTyped
<1>2. RouterInv /\ TableTypeOK /\ PeersTyped => TypeOK
  <2> SUFFICES ASSUME RouterInv, TableTypeOK, PeersTyped PROVE TypeOK
    OBVIOUS
  <2>1. ToSet(undo) \subseteq Undos /\ ToSet(calls) \subseteq Frames
    BY DEF RouterInv, RouterTypes, ToSet
  <2>2. Frames \subseteq Frame
    BY DEF Frames, Frame, Call
  <2>3. QED
    BY <2>1, <2>2 DEF RouterInv, RouterTypes, OrderInv, PeersTyped, Undos, TypeOK
<1>3. QED
  BY <1>1, <1>2, PeersStayTyped, RouterInvHolds, RouterKeepsTable, TableIsExact, PTL DEF Spec

=============================================================================
