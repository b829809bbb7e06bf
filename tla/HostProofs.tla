----------------------------- MODULE HostProofs -----------------------------
(* The two hosts, for any number of sockets, peers and limits: the counter  *)
(* and the limiter are right, and stop() reaches every socket.  The         *)
(* registry of ServerHost is right, and a server of ClientHost that makes   *)
(* one attempt at a time keeps its place while its connection is open.      *)
EXTENDS ServerHost, ClientHost, FiniteSetTheorems, TLAPS

(***************************************************************************)
(* What the steps that the hosts have in common keep.                      *)
(***************************************************************************)
\* The types the proofs need; tracked is not looked into.
HandshakeTypes ==
  /\ stage \in [Sockets -> Stages]
  /\ link \in [Sockets -> {"none", "open", "closing", "closed"}]
  /\ waitsFor \in [Sockets -> Sockets \cup {None}]
  /\ connectionCount \in Int
  /\ pendingSockets \subseteq Sockets
  /\ attempts \in [Keys -> Nat]
  /\ stopped \in BOOLEAN

\* A finite number of sockets is alive, whatever the number there may be.
Counted == IsFiniteSet(Alive) /\ CountIsExact

\* A socket that did not come yet has no link, and is not counted.
NewIsUnlinked == \A s \in Sockets : stage[s] = "new" => link[s] = "none"

\* An open socket can be found by stop().
OpenIsListed ==
  \A s \in Sockets : link[s] = "open" => s \in pendingSockets \/ stage[s] = "attached"

\* A peer that makes one attempt at a time has one handshake at a time.
OneAttempt ==
  \A s, t \in Sockets :
    stage[s] \in Handshaking /\ stage[t] \in Handshaking /\ IdOf[s] = IdOf[t]
    /\ IdOf[s] \in Orderly => s = t

\* Keys that only one orderly peer has.
OrderlyKeys ==
  {k \in Keys : \E i \in Orderly : \A s \in Sockets : KeyOf[s] = k => IdOf[s] = i}

\* A key with n failures may fail once more.
HasRoom(n) == n < MaxAttempts \/ n = 0

\* While a password is asked for or checked there is room for its failure.
RoomForFailure ==
  \A s \in Sockets :
    stage[s] \in {"password", "validating"} /\ KeyOf[s] \in OrderlyKeys
    => HasRoom(attempts[KeyOf[s]])

Guarded == GuessesAreBounded /\ RoomForFailure

Reached == NewIsUnlinked /\ OpenIsListed /\ StopReachesEverySocket

HandshakeInv == HandshakeTypes /\ Counted /\ Reached /\ OneAttempt /\ Guarded

-----------------------------------------------------------------------------
(* Counting.                                                               *)

LEMMA CountKept ==
  ASSUME Counted, Alive' = Alive, connectionCount' = connectionCount
  PROVE  Counted'
BY DEF Counted, CountIsExact

\* Sockets that close are taken off the count, those that are alive of them.
LEMMA CountDown ==
  ASSUME Counted, NEW S, Alive' = Alive \ S,
         connectionCount' = connectionCount - Cardinality(S \cap Alive)
  PROVE  Counted'
<1>1. IsFiniteSet(Alive)
  BY DEF Counted
<1>2. S \cap Alive \in SUBSET Alive /\ Alive \ S \in SUBSET Alive
  OBVIOUS
<1>3. IsFiniteSet(S \cap Alive) /\ IsFiniteSet(Alive \ S)
  BY <1>1, <1>2, FS_Subset
<1>4. /\ Cardinality(Alive) \in Nat /\ Cardinality(S \cap Alive) \in Nat
      /\ Cardinality(Alive \ S) \in Nat
  BY <1>1, <1>3, FS_CardinalityType
<1>5. (S \cap Alive) \cup (Alive \ S) = Alive /\ (S \cap Alive) \cap (Alive \ S) = {}
  OBVIOUS
<1>6. Cardinality(Alive)
      = Cardinality(S \cap Alive) + Cardinality(Alive \ S) - Cardinality({})
  BY <1>3, <1>5, FS_Union
<1>7. Cardinality(Alive \ S) = Cardinality(Alive) - Cardinality(S \cap Alive)
  BY <1>4, <1>6, FS_EmptySet
<1>8. Cardinality(Alive') = connectionCount' /\ Cardinality(Alive') <= MaxConnections
  BY <1>4, <1>7, HostHandshakeAssumption DEF Counted, CountIsExact
<1>9. QED
  BY <1>3, <1>8 DEF Counted, CountIsExact

\* A socket that comes is counted, if there is room.
LEMMA CountUp ==
  ASSUME Counted, NEW s, s \notin Alive, Alive' = Alive \cup {s},
         ~Full, connectionCount' = connectionCount + 1
  PROVE  Counted'
<1>1. IsFiniteSet(Alive)
  BY DEF Counted
<1>2. IsFiniteSet(Alive') /\ Cardinality(Alive') = Cardinality(Alive) + 1
  BY <1>1, FS_AddElement
<1>3. Cardinality(Alive) \in Nat
  BY <1>1, FS_CardinalityType
<1>4. QED
  BY <1>2, <1>3, HostHandshakeAssumption DEF Counted, CountIsExact, Full

-----------------------------------------------------------------------------
(* The limiter.                                                            *)

Guessing == {s \in Sockets : stage[s] \in {"password", "validating"}}

\* Failures are forgotten, or stay.
LEMMA GuardKept ==
  ASSUME HandshakeInv, Guessing' \subseteq Guessing,
         \A k \in Keys : attempts'[k] \in {attempts[k], 0}
  PROVE  Guarded'
<1>1. MaxAttempts \in Nat /\ \A k \in Keys : attempts[k] \in Nat
  BY HostHandshakeAssumption DEF HandshakeInv, HandshakeTypes
<1>2. \A k \in Keys : attempts'[k] <= attempts[k] /\ attempts'[k] \in Nat
  BY <1>1
<1>3. GuessesAreBounded'
  BY <1>1, <1>2 DEF HandshakeInv, Guarded, GuessesAreBounded
<1>4. ASSUME NEW s \in Guessing', KeyOf[s] \in OrderlyKeys
      PROVE  HasRoom(attempts'[KeyOf[s]])
  <2>1. HasRoom(attempts[KeyOf[s]]) /\ KeyOf[s] \in Keys
    BY <1>4 DEF HandshakeInv, Guarded, RoomForFailure, Guessing, OrderlyKeys
  <2>2. QED
    BY <1>1, <1>2, <2>1 DEF HasRoom
<1>5. QED
  BY <1>3, <1>4 DEF Guarded, RoomForFailure, Guessing, OrderlyKeys

LEMMA GuardUntracked ==
  ASSUME HandshakeInv, Guessing' \subseteq Guessing, NEW k, Untrack(k)
  PROVE  Guarded' /\ attempts' \in [Keys -> Nat]
<1>1. attempts' = [attempts EXCEPT ![k] = 0]
  BY Zenon DEF Untrack
<1>2. attempts' \in [Keys -> Nat] /\ \A j \in Keys : attempts'[j] \in {attempts[j], 0}
  BY <1>1 DEF HandshakeInv, HandshakeTypes
<1>3. QED
  BY <1>2, GuardKept

\* The attempt that fails is the only one of its key, if an orderly peer has it.
LEMMA GuardRecorded ==
  ASSUME HandshakeInv, Guessing' \subseteq Guessing, NEW s \in Sockets, s \in Guessing,
         s \notin Guessing', RecordFailure(KeyOf[s])
  PROVE  Guarded' /\ attempts' \in [Keys -> Nat]
<1> DEFINE k == KeyOf[s]
<1>1. k \in Keys
  BY HostHandshakeAssumption
<1>2. /\ attempts' \in [Keys -> Nat]
      /\ attempts'[k] = attempts[k] + 1
      /\ \A j \in Keys : j # k => attempts'[j] \in {attempts[j], 0}
  BY <1>1 DEF RecordFailure, HandshakeInv, HandshakeTypes
<1>3. MaxAttempts \in Nat /\ \A j \in Keys : attempts[j] \in Nat
  BY HostHandshakeAssumption DEF HandshakeInv, HandshakeTypes
<1>4. GuessesAreBounded'
  <2>1. \A j \in OrderlyKeys : attempts[j] <= MaxAttempts \/ attempts[j] = 1
    BY DEF HandshakeInv, Guarded, GuessesAreBounded, OrderlyKeys
  <2>2. k \in OrderlyKeys => HasRoom(attempts[k])
    BY DEF HandshakeInv, Guarded, RoomForFailure, Guessing
  <2>3. \A j \in OrderlyKeys : attempts'[j] <= MaxAttempts \/ attempts'[j] = 1
    BY <1>2, <1>3, <2>1, <2>2 DEF OrderlyKeys, HasRoom
  <2>4. QED
    BY <2>3 DEF GuessesAreBounded, OrderlyKeys
<1>5. RoomForFailure'
  <2> SUFFICES ASSUME NEW t \in Sockets, t \in Guessing', KeyOf[t] \in OrderlyKeys
               PROVE  HasRoom(attempts'[KeyOf[t]])
    BY DEF RoomForFailure, Guessing, OrderlyKeys
  <2>1. t \in Guessing /\ t # s
    OBVIOUS
  <2>2. KeyOf[t] # k
    BY <2>1 DEF HandshakeInv, OneAttempt, Guessing, Handshaking, Asking, OrderlyKeys
  <2>3. HasRoom(attempts[KeyOf[t]]) /\ KeyOf[t] \in Keys
    BY <2>1, HostHandshakeAssumption DEF HandshakeInv, Guarded, RoomForFailure, Guessing
  <2>4. QED
    BY <1>2, <1>3, <2>2, <2>3 DEF HasRoom
<1>6. QED
  BY <1>2, <1>4, <1>5 DEF Guarded

-----------------------------------------------------------------------------
(* The steps of the handshakes.                                            *)

\* What HandshakeInv says but for the failures.
Core == HandshakeTypes /\ Counted /\ Reached /\ OneAttempt

\* A handshake goes on, and no new password is asked for.
LEMMA GoesOn ==
  ASSUME HandshakeInv, NEW s \in Sockets, NEW next \in Handshaking,
         stage[s] \in Handshaking,
         next \in {"password", "validating"} => s \in Guessing,
         stage' = [stage EXCEPT ![s] = next],
         waitsFor' \in [Sockets -> Sockets \cup {None}],
         UNCHANGED <<link, connectionCount, pendingSockets, limiter, stopped>>
  PROVE  HandshakeInv'
<1>1. HandshakeTypes'
  BY DEF HandshakeInv, HandshakeTypes, limiter, Stages
<1>2. Counted'
  BY CountKept DEF HandshakeInv, Alive
<1>3. \A t \in Sockets : stage'[t] = IF t = s THEN next ELSE stage[t]
  BY DEF HandshakeInv, HandshakeTypes
<1>4. Reached'
  BY <1>3 DEF HandshakeInv, Reached, NewIsUnlinked, OpenIsListed, StopReachesEverySocket, Handshaking, Asking
<1>5. OneAttempt'
  BY <1>3 DEF HandshakeInv, OneAttempt
<1>6. Guarded'
  <2>1. Guessing' \subseteq Guessing
    BY <1>3 DEF Guessing
  <2>2. QED
    BY <2>1, GuardKept DEF limiter
<1>7. QED
  BY <1>1, <1>2, <1>4, <1>5, <1>6 DEF HandshakeInv

\* Sockets are closed: their handshakes are over, and nobody starts one.
LEMMA Closes ==
  ASSUME HandshakeInv, NEW S \in SUBSET Sockets, Dispatch(S),
         stage' \in [Sockets -> Stages],
         \A t \in Sockets :
              /\ stage'[t] = "new" => stage[t] = "new"
              /\ stage'[t] \in Handshaking => stage[t] \in Handshaking
              /\ t \notin S /\ stage[t] = "attached" => stage'[t] = "attached",
         attempts' \in [Keys -> Nat],
         UNCHANGED <<waitsFor, stopped>>
  PROVE  Core'
<1>1. /\ link' = [t \in Sockets |-> IF t \in S \cap Alive THEN "closed" ELSE link[t]]
      /\ pendingSockets' = pendingSockets \ S
      /\ connectionCount' = connectionCount - Cardinality(S \cap Alive)
  BY DEF Dispatch
<1>2. Counted'
  <2>1. Alive' = Alive \ S
    BY <1>1 DEF Alive
  <2>2. QED
    BY <1>1, <2>1, CountDown DEF HandshakeInv
<1>3. HandshakeTypes'
  <2>1. connectionCount' \in Int
    <3>1. IsFiniteSet(S \cap Alive)
      BY FS_Subset DEF HandshakeInv, Counted
    <3>2. QED
      BY <1>1, <3>1, FS_CardinalityType DEF HandshakeInv, HandshakeTypes
  <2>2. QED
    BY <1>1, <2>1 DEF HandshakeInv, HandshakeTypes
<1>4. \A t \in Sockets : link'[t] \in {link[t], "closed"} /\ (link'[t] = "open" => t \notin S)
  BY <1>1 DEF Alive
<1>5. NewIsUnlinked'
  BY <1>1 DEF HandshakeInv, Reached, NewIsUnlinked, Alive
<1>6. OpenIsListed' /\ StopReachesEverySocket'
  BY <1>1, <1>4 DEF HandshakeInv, Reached, OpenIsListed, StopReachesEverySocket
<1>7. OneAttempt'
  BY DEF HandshakeInv, OneAttempt
<1>8. QED
  BY <1>2, <1>3, <1>5, <1>6, <1>7 DEF Core, Reached

\* What the close listeners of the sockets in S do to the handshakes.
LEMMA AfterCloses ==
  ASSUME HandshakeTypes, NEW S \in SUBSET Sockets
  PROVE  /\ StageAfterClose(S) \in [Sockets -> Stages]
         /\ \A t \in Sockets :
              /\ StageAfterClose(S)[t] \in {stage[t], "over", "resumed"}
              /\ StageAfterClose(S)[t] = "resumed" => stage[t] \in {"waiting", "resumed"}
              /\ t \in S /\ stage[t] \in Asking \cup {"attached"} => StageAfterClose(S)[t] = "over"
              /\ t \notin S /\ stage[t] # "waiting" => StageAfterClose(S)[t] = stage[t]
              /\ stage[t] = "waiting" =>
                   StageAfterClose(S)[t] = IF waitsFor[t] \in S THEN "resumed" ELSE "waiting"
BY DEF HandshakeTypes, StageAfterClose, Stages, Handshaking, Asking

LEMMA SocketCloses ==
  ASSUME HandshakeInv, NEW s \in Sockets, CloseSocket(s)
  PROVE  HandshakeInv'
<1>1. stage' = StageAfterClose({s}) /\ Dispatch({s}) /\ UNCHANGED <<waitsFor, stopped>>
  BY DEF CloseSocket
<1>2. HandshakeTypes
  BY DEF HandshakeInv
<1>3. /\ stage' \in [Sockets -> Stages]
      /\ \A t \in Sockets :
           /\ stage'[t] \in {stage[t], "over", "resumed"}
           /\ stage'[t] = "resumed" => stage[t] \in {"waiting", "resumed"}
           /\ t = s /\ stage[t] \in Asking \cup {"attached"} => stage'[t] = "over"
           /\ t # s /\ stage[t] # "waiting" => stage'[t] = stage[t]
  BY <1>1, <1>2, AfterCloses
<1>4. Guessing' \subseteq Guessing
  BY <1>3 DEF Guessing
<1>5. Guarded' /\ attempts' \in [Keys -> Nat]
  <2>1. CASE stage[s] = "password"
    <3>1. s \in Guessing /\ s \notin Guessing'
      BY <1>3, <2>1 DEF Guessing, Asking
    <3>2. RecordFailure(KeyOf[s])
      BY <2>1 DEF CloseSocket
    <3>3. QED
      BY <1>4, <3>1, <3>2, GuardRecorded
  <2>2. CASE stage[s] # "password"
    <3>1. UNCHANGED attempts
      BY <2>2 DEF CloseSocket, limiter
    <3>2. QED
      BY <1>2, <1>4, <3>1, GuardKept DEF HandshakeTypes
  <2>3. QED
    BY <2>1, <2>2
<1>6. Core'
  <2>1. \A t \in Sockets :
       /\ stage'[t] = "new" => stage[t] = "new"
       /\ stage'[t] \in Handshaking => stage[t] \in Handshaking
       /\ t \notin {s} /\ stage[t] = "attached" => stage'[t] = "attached"
    BY <1>3 DEF Handshaking, Asking
  <2>2. QED
    BY <1>1, <1>3, <1>5, <2>1, Closes
<1>7. QED
  BY <1>5, <1>6 DEF Core, HandshakeInv

\* A handshake that is given up leaves the failures to be settled.
LEMMA GivesUp ==
  ASSUME HandshakeInv, NEW s \in Sockets, stage[s] \in Handshaking, GiveUp(s),
         attempts' \in [Keys -> Nat]
  PROVE  /\ Core'
         /\ Guessing' = Guessing \ {s}
<1>1. stage' = [stage EXCEPT ![s] = "over"] /\ Dispatch({s}) /\ UNCHANGED <<waitsFor, stopped>>
  BY DEF GiveUp
<1>2. /\ stage' \in [Sockets -> Stages]
      /\ \A t \in Sockets : stage'[t] = IF t = s THEN "over" ELSE stage[t]
  BY <1>1 DEF HandshakeInv, HandshakeTypes, Stages
<1>3. Core'
  <2>1. \A t \in Sockets :
       /\ stage'[t] = "new" => stage[t] = "new"
       /\ stage'[t] \in Handshaking => stage[t] \in Handshaking
       /\ t \notin {s} /\ stage[t] = "attached" => stage'[t] = "attached"
    BY <1>2 DEF Handshaking, Asking
  <2>2. QED
    BY <1>1, <1>2, <2>1, Closes
<1>4. QED
  BY <1>2, <1>3 DEF Guessing

\* A socket arrives: its peer, if orderly, has no other handshake.
LEMMA ConnectStep ==
  ASSUME HandshakeInv, NEW s \in Sockets, Connect(s)
  PROVE  HandshakeInv'
<1>1. stage[s] = "new" /\ link[s] = "none" /\ ~stopped
  BY DEF Connect, Arrives, HandshakeInv, Reached, NewIsUnlinked
<1>2. /\ stage' = [stage EXCEPT ![s] = "password"]
      /\ link' = [link EXCEPT ![s] = "open"]
      /\ connectionCount' = connectionCount + 1
      /\ pendingSockets' = pendingSockets \cup {s}
      /\ UNCHANGED <<waitsFor, stopped>>
  BY Zenon DEF Connect
<1>3. /\ attempts' \in [Keys -> Nat]
      /\ \A k \in Keys : attempts'[k] \in {attempts[k], 0}
  <2>1. attempts' = [attempts EXCEPT ![KeyOf[s]] = 0] \/ UNCHANGED attempts
    BY Zenon DEF Connect, Untrack, limiter
  <2>2. QED
    BY <2>1 DEF HandshakeInv, HandshakeTypes
<1>4. /\ HandshakeTypes
      /\ \A t \in Sockets : stage'[t] = IF t = s THEN "password" ELSE stage[t]
      /\ \A t \in Sockets : link'[t] = IF t = s THEN "open" ELSE link[t]
  BY <1>2 DEF HandshakeInv, HandshakeTypes
<1>5. HandshakeTypes'
  BY <1>2, <1>3, <1>4 DEF HandshakeTypes, Stages, Handshaking, Asking
<1>6. Counted'
  <2>1. s \notin Alive /\ Alive' = Alive \cup {s}
    BY <1>1, <1>4 DEF Alive
  <2>2. ~Full
    BY DEF Connect
  <2>3. QED
    BY <1>2, <2>1, <2>2, CountUp DEF HandshakeInv
<1>7. Reached'
  BY <1>1, <1>2, <1>4 DEF HandshakeInv, Reached, NewIsUnlinked, OpenIsListed,
     StopReachesEverySocket
<1>8. OneAttempt'
  <2>1. IdOf[s] \in Orderly =>
          \A t \in Sockets : stage[t] \in Handshaking => IdOf[t] # IdOf[s]
    BY DEF Connect, Arrives
  <2>2. QED
    BY <1>4, <2>1 DEF HandshakeInv, OneAttempt
<1>9. Guarded'
  <2>1. MaxAttempts \in Nat /\ (\A k \in Keys : attempts[k] \in Nat) /\ KeyOf[s] \in Keys
    BY <1>4, HostHandshakeAssumption DEF HandshakeTypes
  <2>2. \A k \in Keys : attempts'[k] <= attempts[k] /\ attempts'[k] \in Nat
    BY <1>3, <2>1
  <2>3. GuessesAreBounded'
    BY <2>1, <2>2 DEF HandshakeInv, Guarded, GuessesAreBounded
  <2>4. HasRoom(attempts'[KeyOf[s]])
    <3>1. ~(attempts[KeyOf[s]] > 0 /\ attempts[KeyOf[s]] >= MaxAttempts)
      BY DEF Connect, Blocked
    <3>2. QED
      BY <2>1, <2>2, <3>1 DEF HasRoom
  <2>5. ASSUME NEW t \in Sockets, t # s, t \in Guessing', KeyOf[t] \in OrderlyKeys
        PROVE  HasRoom(attempts'[KeyOf[t]])
    <3>1. HasRoom(attempts[KeyOf[t]]) /\ KeyOf[t] \in Keys
      BY <1>4, <2>5, HostHandshakeAssumption
         DEF HandshakeInv, Guarded, RoomForFailure, Guessing
    <3>2. QED
      BY <2>1, <2>2, <3>1 DEF HasRoom
  <2>6. QED
    BY <2>3, <2>4, <2>5 DEF Guarded, RoomForFailure, Guessing, OrderlyKeys
<1>10. QED
  BY <1>5, <1>6, <1>7, <1>8, <1>9 DEF HandshakeInv

\* A socket that is refused or blocked is over before it is counted.
LEMMA NotAdmitted ==
  ASSUME HandshakeInv, NEW s \in Sockets, Refuse(s) \/ Block(s)
  PROVE  HandshakeInv'
<1>1. stage[s] = "new" /\ link[s] = "none" /\ UNCHANGED <<waitsFor, connectionCount, pendingSockets, limiter, stopped>>
  BY DEF Refuse, Block, GoTo, Arrives, HandshakeInv, Reached, NewIsUnlinked
<1>2. PICK n \in {"refused", "over"} : stage' = [stage EXCEPT ![s] = n]
  BY DEF Refuse, Block, GoTo
<1>3. link' \in {link, [link EXCEPT ![s] = "closed"]}
  BY DEF Refuse, Block, GoTo
<1>4. /\ HandshakeTypes
      /\ \A t \in Sockets : stage'[t] = IF t = s THEN n ELSE stage[t]
      /\ \A t \in Sockets : IF t = s THEN link'[t] \in {"none", "closed"} ELSE link'[t] = link[t]
  BY <1>1, <1>2, <1>3 DEF HandshakeInv, HandshakeTypes
<1>5. HandshakeTypes'
  BY <1>1, <1>2, <1>3, <1>4 DEF HandshakeTypes, Stages, limiter
<1>6. Counted'
  <2>1. Alive' = Alive
    BY <1>1, <1>4 DEF Alive
  <2>2. QED
    BY <1>1, <2>1, CountKept DEF HandshakeInv
<1>7. Reached'
  BY <1>1, <1>4 DEF HandshakeInv, Reached, NewIsUnlinked, OpenIsListed,
     StopReachesEverySocket
<1>8. OneAttempt'
  BY <1>4 DEF HandshakeInv, OneAttempt, Handshaking, Asking
<1>9. Guarded'
  <2>1. Guessing' \subseteq Guessing /\ UNCHANGED attempts
    BY <1>1, <1>4 DEF Guessing, limiter
  <2>2. QED
    BY <2>1, GuardKept
<1>10. QED
  BY <1>5, <1>6, <1>7, <1>8, <1>9 DEF HandshakeInv

\* A step of a handshake: it goes on, or it is given up.
LEMMA HandshakeStep ==
  ASSUME HandshakeInv, NEW s \in Sockets, Handshake(s)
  PROVE  HandshakeInv'
<1>0. HandshakeTypes
  BY DEF HandshakeInv
<1>1. ASSUME NEW next \in Handshaking, stage[s] \in Handshaking, GoTo(s, next),
             next \in {"password", "validating"} => s \in Guessing
      PROVE  HandshakeInv'
  <2>1. /\ stage' = [stage EXCEPT ![s] = next]
        /\ UNCHANGED <<link, waitsFor, connectionCount, pendingSockets, limiter, stopped>>
    BY <1>1 DEF GoTo
  <2>2. waitsFor' \in [Sockets -> Sockets \cup {None}]
    BY <1>0, <2>1 DEF HandshakeTypes
  <2>3. QED
    BY <1>1, <2>1, <2>2, GoesOn
<1>2. ASSUME stage[s] \in Handshaking, GiveUp(s), UNCHANGED limiter
      PROVE  HandshakeInv'
  <2>1. UNCHANGED attempts /\ attempts' \in [Keys -> Nat]
    BY <1>0, <1>2 DEF limiter, HandshakeTypes
  <2>2. Core' /\ Guessing' = Guessing \ {s}
    BY <1>2, <2>1, GivesUp
  <2>3. QED
    BY <2>1, <2>2, GuardKept DEF Core, HandshakeInv
<1>3. CASE PasswordAnswered(s)
  BY <1>1, <1>3 DEF PasswordAnswered, Handshaking, Asking, Guessing
<1>4. CASE PasswordAccepted(s)
  <2>1. stage[s] = "validating" /\ stage[s] \in Handshaking
    BY <1>4 DEF PasswordAccepted, Handshaking
  <2>2. Untrack(KeyOf[s])
    BY <1>4 DEF PasswordAccepted
  <2>3. attempts' = [attempts EXCEPT ![KeyOf[s]] = 0]
    BY Zenon, <2>2 DEF Untrack
  <2>4. attempts' \in [Keys -> Nat]
    BY <1>0, <2>3 DEF HandshakeTypes
  <2>5. CASE GiveUp(s)
    <3>1. Core' /\ Guessing' = Guessing \ {s}
      BY <2>1, <2>4, <2>5, GivesUp
    <3>2. QED
      BY <2>2, <3>1, GuardUntracked DEF Core, HandshakeInv
  <2>6. CASE /\ stage' = [stage EXCEPT ![s] = "identity"]
             /\ UNCHANGED <<link, waitsFor, connectionCount, pendingSockets, stopped>>
    <3>1. \A t \in Sockets : stage'[t] = IF t = s THEN "identity" ELSE stage[t]
      BY <1>0, <2>6 DEF HandshakeTypes
    <3>2. HandshakeTypes'
      BY <1>0, <2>4, <2>6 DEF HandshakeTypes, Stages, Handshaking, Asking
    <3>3. Counted'
      BY <2>6, CountKept DEF HandshakeInv, Alive
    <3>4. Reached'
      BY <2>1, <2>6, <3>1 DEF HandshakeInv, Reached, NewIsUnlinked, OpenIsListed,
     StopReachesEverySocket
    <3>5. OneAttempt'
      BY <2>1, <3>1 DEF HandshakeInv, OneAttempt
    <3>6. Guessing' \subseteq Guessing
      BY <3>1 DEF Guessing
    <3>7. QED
      BY <2>2, <3>2, <3>3, <3>4, <3>5, <3>6, GuardUntracked DEF HandshakeInv
  <2>7. QED
    BY <1>4, <2>5, <2>6 DEF PasswordAccepted
<1>5. CASE PasswordRejected(s)
  <2>1. s \in Guessing /\ stage[s] \in Handshaking /\ GiveUp(s) /\ RecordFailure(KeyOf[s])
    BY <1>5 DEF PasswordRejected, Guessing, Handshaking
  <2>2. attempts' \in [Keys -> Nat]
    BY <1>0, <2>1, HostHandshakeAssumption DEF RecordFailure, HandshakeTypes
  <2>3. Core' /\ Guessing' = Guessing \ {s}
    BY <2>1, <2>2, GivesUp
  <2>4. Guarded'
    BY <2>1, <2>3, GuardRecorded
  <2>5. QED
    BY <2>3, <2>4 DEF Core, HandshakeInv
<1>6. CASE RequestFails(s)
  BY <1>6, SocketCloses DEF RequestFails
<1>7. CASE HookFails(s)
  BY <1>2, <1>7 DEF HookFails, Handshaking
<1>8. CASE HookReturns(s)
  BY <1>1, <1>2, <1>8 DEF HookReturns, Handshaking, Asking
<1>9. QED
  BY <1>3, <1>4, <1>5, <1>6, <1>7, <1>8 DEF Handshake

\* Time passes, and a peer begins to close.
LEMMA OtherStep ==
  ASSUME HandshakeInv,
         (\E s \in Sockets : BeginClose(s)) \/ (\E k \in Keys : WindowEnds(k))
  PROVE  HandshakeInv'
<1>0. HandshakeTypes
  BY DEF HandshakeInv
<1>1. ASSUME NEW s \in Sockets, BeginClose(s)
      PROVE  HandshakeInv'
  <2>1. /\ link[s] = "open"
        /\ link' = [link EXCEPT ![s] = "closing"]
        /\ UNCHANGED <<stage, waitsFor, connectionCount, pendingSockets, attempts, stopped>>
    BY <1>1 DEF BeginClose, limiter
  <2>2. \A t \in Sockets : link'[t] = IF t = s THEN "closing" ELSE link[t]
    BY <1>0, <2>1 DEF HandshakeTypes
  <2>3. HandshakeTypes'
    BY <1>0, <2>1 DEF HandshakeTypes
  <2>4. Alive' = Alive
    BY <2>1, <2>2 DEF Alive
  <2>5. Counted'
    BY <2>1, <2>4, CountKept DEF HandshakeInv
  <2>6. Reached'
    BY <2>1, <2>2 DEF HandshakeInv, Reached, NewIsUnlinked, OpenIsListed,
     StopReachesEverySocket
  <2>7. OneAttempt'
    BY <2>1 DEF HandshakeInv, OneAttempt
  <2>8. Guarded'
    BY <2>1, GuardKept DEF Guessing
  <2>9. QED
    BY <2>3, <2>5, <2>6, <2>7, <2>8 DEF HandshakeInv
<1>2. ASSUME NEW k \in Keys, WindowEnds(k)
      PROVE  HandshakeInv'
  <2>1. /\ attempts' = [attempts EXCEPT ![k] = 0]
        /\ UNCHANGED <<stage, link, waitsFor, connectionCount, pendingSockets, stopped>>
    BY Zenon, <1>2 DEF WindowEnds, Untrack
  <2>2. attempts' \in [Keys -> Nat] /\ \A j \in Keys : attempts'[j] \in {attempts[j], 0}
    BY <1>0, <2>1 DEF HandshakeTypes
  <2>3. HandshakeTypes'
    BY <1>0, <2>1, <2>2 DEF HandshakeTypes
  <2>4. Counted'
    BY <2>1, CountKept DEF HandshakeInv, Alive
  <2>5. Reached' /\ OneAttempt'
    BY <2>1 DEF HandshakeInv, Reached, NewIsUnlinked, OpenIsListed,
     StopReachesEverySocket, OneAttempt
  <2>6. Guarded'
    BY <2>1, <2>2, GuardKept DEF Guessing
  <2>7. QED
    BY <2>3, <2>4, <2>5, <2>6 DEF HandshakeInv
<1>3. QED
  BY <1>1, <1>2

LEMMA CommonStep ==
  ASSUME HandshakeInv, CommonNext
  PROVE  HandshakeInv'
BY ConnectStep, NotAdmitted, HandshakeStep, OtherStep DEF CommonNext

Late == {"resumed", "hook", "finalize"}

\* After the step u is neither open nor served.
Gone(u) == link'[u] # "open" /\ stage'[u] # "attached"

\* What a host needs to know of these steps: nothing is attached or taken away, a
\* socket that opens is asked for its password, and who stops waiting for a
\* socket does so because that closed.
Harmless(t) ==
  /\ stage'[t] = "attached" => stage[t] = "attached"
  /\ stage[t] \in {"attached", "over"} => stage'[t] = stage[t]
  /\ link'[t] = "open" => link[t] = "open" \/ stage'[t] = "password"
  /\ t \in Alive' => t \in Alive \/ stage'[t] = "password"
  /\ stage'[t] \in Late =>
       \/ stage[t] \in Late
       \/ stage[t] = "waiting" /\ (waitsFor[t] \in Sockets => Gone(waitsFor[t]))
  /\ stage'[t] = "waiting" => stage[t] = "waiting"
  /\ waitsFor' = waitsFor

LEMMA CommonFacts ==
  ASSUME HandshakeTypes, CommonNext, NEW t \in Sockets
  PROVE  Harmless(t)
<1>1. ASSUME NEW s \in Sockets, NEW n \in Stages \ {"attached", "waiting"},
             stage[s] \notin {"attached", "over"}, n \in Late => stage[s] \in Late,
             stage' = [stage EXCEPT ![s] = n], UNCHANGED waitsFor,
             link'[t] \in {link[t], "closed"} \/ (t = s /\ n = "password")
      PROVE  Harmless(t)
  BY <1>1 DEF Harmless, HandshakeTypes, Alive
<1>2. ASSUME NEW s \in Sockets, Dispatch({s})
      PROVE  /\ link'[t] \in {link[t], "closed"}
             /\ link'[s] # "open"
  BY <1>2 DEF Dispatch, Alive, HandshakeTypes
<1>3. ASSUME NEW s \in Sockets, stage[s] \in Handshaking, GiveUp(s)
      PROVE  Harmless(t)
  BY <1>1, <1>2, <1>3 DEF GiveUp, Stages, Handshaking, Asking, Late
<1>4. ASSUME NEW s \in Sockets, stage[s] \in Handshaking, NEW n \in Handshaking \ {"waiting"},
             GoTo(s, n), n \in Late => stage[s] \in Late
      PROVE  Harmless(t)
  BY <1>1, <1>4 DEF GoTo, Stages, Handshaking, Asking
<1>5. ASSUME NEW s \in Sockets, Handshake(s)
      PROVE  Harmless(t)
  <2>1. CASE PasswordAnswered(s)
    BY <1>4, <2>1 DEF PasswordAnswered, Handshaking, Asking, Late
  <2>2. CASE PasswordAccepted(s)
    <3>1. CASE GiveUp(s)
      BY <1>3, <2>2, <3>1 DEF PasswordAccepted, Handshaking
    <3>2. CASE stage' = [stage EXCEPT ![s] = "identity"] /\ UNCHANGED <<link, waitsFor>>
      BY <1>1, <2>2, <3>2 DEF PasswordAccepted, Stages, Handshaking, Asking, Late
    <3>3. QED
      BY <2>2, <3>1, <3>2 DEF PasswordAccepted
  <2>3. CASE PasswordRejected(s)
    BY <1>3, <2>3 DEF PasswordRejected, Handshaking
  <2>4. CASE RequestFails(s)
    <3>1. /\ stage[s] \in Asking /\ Dispatch({s}) /\ stage' = StageAfterClose({s})
          /\ UNCHANGED waitsFor
      BY <2>4 DEF RequestFails, CloseSocket
    <3>2. /\ stage'[t] \in {stage[t], "over", "resumed"}
          /\ stage'[t] = "resumed" => stage[t] \in {"waiting", "resumed"}
          /\ t # s /\ stage[t] # "waiting" => stage'[t] = stage[t]
          /\ stage[t] = "waiting" =>
               stage'[t] = IF waitsFor[t] \in {s} THEN "resumed" ELSE "waiting"
      BY <3>1, AfterCloses
    <3>3. /\ link'[t] \in {link[t], "closed"}
          /\ link'[s] # "open"
      BY <1>2, <3>1
    <3>4. QED
      BY <3>1, <3>2, <3>3, AfterCloses DEF Harmless, Gone, Late, Asking, Alive
  <2>5. CASE HookFails(s)
    BY <1>3, <2>5 DEF HookFails, Handshaking
  <2>6. CASE HookReturns(s)
    BY <1>3, <1>4, <2>6 DEF HookReturns, Handshaking, Asking, Late
  <2>7. QED
    BY <1>5, <2>1, <2>2, <2>3, <2>4, <2>5, <2>6 DEF Handshake
<1>6. ASSUME NEW s \in Sockets, Connect(s)
      PROVE  Harmless(t)
  <2>1. /\ stage[s] = "new" /\ stage' = [stage EXCEPT ![s] = "password"]
        /\ link' = [link EXCEPT ![s] = "open"] /\ UNCHANGED waitsFor
    BY Zenon, <1>6 DEF Connect, Arrives
  <2>2. QED
    BY <1>1, <2>1 DEF HandshakeTypes, Stages, Handshaking, Asking, Late
<1>7. ASSUME NEW s \in Sockets, Refuse(s) \/ Block(s)
      PROVE  Harmless(t)
  <2>1. PICK n \in {"refused", "over"} : stage' = [stage EXCEPT ![s] = n]
    BY <1>7 DEF Refuse, Block, GoTo
  <2>2. stage[s] = "new" /\ link' \in {link, [link EXCEPT ![s] = "closed"]} /\ UNCHANGED waitsFor
    BY <1>7 DEF Refuse, Block, GoTo, Arrives
  <2>3. QED
    BY <1>1, <2>1, <2>2 DEF HandshakeTypes, Stages, Late
<1>8. ASSUME NEW s \in Sockets, BeginClose(s)
      PROVE  Harmless(t)
  BY <1>8 DEF BeginClose, Harmless, HandshakeTypes, Alive
<1>9. ASSUME NEW k \in Keys, WindowEnds(k)
      PROVE  Harmless(t)
  <2>1. UNCHANGED <<stage, link, waitsFor>>
    BY Zenon, <1>9 DEF WindowEnds
  <2>2. QED
    BY <2>1 DEF Harmless, Alive
<1>10. QED
  BY <1>5, <1>6, <1>7, <1>8, <1>9 DEF CommonNext

\* stop(): nothing that is open is missed if S has all that are attached.
LEMMA StopStep ==
  ASSUME HandshakeInv, NEW S \in SUBSET Sockets, StopHost(S),
         \A s \in Sockets : stage[s] = "attached" /\ link[s] = "open" => s \in S
  PROVE  HandshakeInv'
<1>0. HandshakeTypes
  BY DEF HandshakeInv
<1>1. /\ stage' = StageAfterClose(S) /\ stopped' = TRUE /\ pendingSockets' = {}
      /\ link' = [s \in Sockets |->
                IF s \in S \cap Alive THEN "closed"
                ELSE IF s \in pendingSockets /\ link[s] = "open" THEN "closing"
                ELSE link[s]]
      /\ connectionCount' = connectionCount - Cardinality(S \cap Alive)
      /\ attempts' = [k \in Keys |-> 0]
      /\ UNCHANGED waitsFor
  BY DEF StopHost
<1>2. /\ stage' \in [Sockets -> Stages]
      /\ \A t \in Sockets :
           /\ stage'[t] \in {stage[t], "over", "resumed"}
           /\ stage'[t] = "resumed" => stage[t] \in {"waiting", "resumed"}
  BY <1>0, <1>1, AfterCloses
<1>3. Counted'
  <2>1. Alive' = Alive \ S
    BY <1>0, <1>1 DEF Alive, HandshakeTypes
  <2>2. QED
    BY <1>1, <2>1, CountDown DEF HandshakeInv
<1>4. HandshakeTypes'
  <2>1. connectionCount' \in Int
    <3>1. IsFiniteSet(S \cap Alive)
      BY FS_Subset DEF HandshakeInv, Counted
    <3>2. QED
      BY <1>0, <1>1, <3>1, FS_CardinalityType DEF HandshakeTypes
  <2>2. link' \in [Sockets -> {"none", "open", "closing", "closed"}]
    BY <1>0, <1>1 DEF HandshakeTypes
  <2>3. QED
    BY <1>0, <1>1, <1>2, <2>1, <2>2 DEF HandshakeTypes
<1>5. Reached'
  <2>1. \A s \in Sockets : link'[s] # "open"
    BY <1>1 DEF HandshakeInv, Reached, OpenIsListed, Alive
  <2>2. NewIsUnlinked'
    BY <1>1, <1>2 DEF HandshakeInv, Reached, NewIsUnlinked, Alive
  <2>3. QED
    BY <1>1, <2>1, <2>2 DEF Reached, OpenIsListed, StopReachesEverySocket
<1>6. OneAttempt'
  BY <1>2 DEF HandshakeInv, OneAttempt, Handshaking, Asking
<1>7. Guarded'
  <2>1. Guessing' \subseteq Guessing
    BY <1>2 DEF Guessing
  <2>2. QED
    BY <1>1, <2>1, GuardKept
<1>8. QED
  BY <1>3, <1>4, <1>5, <1>6, <1>7 DEF HandshakeInv

LEMMA InitHandshake == HandshakeInit => HandshakeInv
<1> SUFFICES ASSUME HandshakeInit PROVE HandshakeInv
  OBVIOUS
<1>1. HandshakeTypes
  <2>1. /\ stage = [s \in Sockets |-> "new"] /\ link = [s \in Sockets |-> "none"]
        /\ waitsFor = [s \in Sockets |-> None] /\ connectionCount = 0
        /\ pendingSockets = {} /\ attempts = [k \in Keys |-> 0] /\ stopped = FALSE
    BY DEF HandshakeInit
  <2>2. stage \in [Sockets -> Stages]
    BY <2>1 DEF Stages
  <2>3. /\ link \in [Sockets -> {"none", "open", "closing", "closed"}]
        /\ waitsFor \in [Sockets -> Sockets \cup {None}]
        /\ attempts \in [Keys -> Nat]
    BY <2>1
  <2>4. connectionCount \in Int /\ pendingSockets \subseteq Sockets
    BY <2>1
  <2>5. stopped \in BOOLEAN
    BY <2>1, Zenon
  <2>6. QED
    BY <2>2, <2>3, <2>4, <2>5 DEF HandshakeTypes
<1>2. Counted
  <2>1. Alive = {}
    BY DEF HandshakeInit, Alive
  <2>2. QED
    BY <2>1, FS_EmptySet, HostHandshakeAssumption DEF HandshakeInit, Counted, CountIsExact
<1>3. Reached /\ OneAttempt
  BY DEF HandshakeInit, Reached, NewIsUnlinked, OpenIsListed, StopReachesEverySocket, OneAttempt, Handshaking, Asking
<1>4. Guarded
  BY HostHandshakeAssumption
     DEF HandshakeInit, Guarded, GuessesAreBounded, RoomForFailure
<1>5. QED
  BY <1>1, <1>2, <1>3, <1>4 DEF HandshakeInv

(***************************************************************************)
(* ServerHost.                                                             *)
(***************************************************************************)
\* Once an orderly client's handshake does not wait any more, none of its
\* sockets is served, unless it came back while its socket was closing.
Alone ==
  \A s, t \in Sockets :
    stage[s] \in Late /\ IdOf[s] \in Orderly \ beside /\ stage[t] = "attached"
    => IdOf[t] # IdOf[s]

\* While it waits, the socket it waits for is the only one that is served.
WaitsForServed ==
  \A s, t \in Sockets :
    /\ stage[s] = "waiting" /\ IdOf[s] \in Orderly \ beside
    /\ stage[t] = "attached" /\ IdOf[t] = IdOf[s]
    => t = waitsFor[s]

RegistryTypes == clients \in [Ids -> Sockets \cup {None}] /\ beside \subseteq Ids

ServerInv == HandshakeInv /\ RegistryTypes /\ RegistryIsExact /\ Alone /\ WaitsForServed

LEMMA InitServer == ServerInit => ServerInv
<1> SUFFICES ASSUME ServerInit PROVE ServerInv
  OBVIOUS
<1>1. HandshakeInv
  BY InitHandshake DEF ServerInit
<1>2. /\ \A s \in Sockets : stage[s] = "new"
      /\ clients = [i \in Ids |-> None] /\ beside = {}
  BY DEF ServerInit, HandshakeInit
<1>3. QED
  BY <1>1, <1>2 DEF ServerInv, RegistryTypes, RegistryIsExact, Alone, WaitsForServed, Late

\* Steps that serve nobody and let nobody stop waiting for a served socket.
LEMMA NobodyServed ==
  ASSUME ServerInv, \A t \in Sockets : Harmless(t), UNCHANGED beside
  PROVE  Alone' /\ WaitsForServed'
<1>1. \A t \in Sockets : stage'[t] = "attached" => stage[t] = "attached"
  BY DEF Harmless
<1>2. Alone'
  <2> SUFFICES ASSUME NEW s \in Sockets, NEW t \in Sockets,
                      stage'[s] \in Late, IdOf[s] \in Orderly \ beside,
                      stage'[t] = "attached", IdOf[t] = IdOf[s]
               PROVE  FALSE
    BY DEF Alone
  <2>1. stage[t] = "attached"
    BY <1>1
  <2>2. stage[s] \notin Late
    BY <2>1 DEF ServerInv, Alone
  <2>3. stage[s] = "waiting" /\ (waitsFor[s] \in Sockets => Gone(waitsFor[s]))
    BY <2>2 DEF Harmless
  <2>4. t = waitsFor[s]
    BY <2>1, <2>3 DEF ServerInv, WaitsForServed
  <2>5. QED
    BY <2>3, <2>4 DEF Gone
<1>3. WaitsForServed'
  BY <1>1 DEF ServerInv, WaitsForServed, Harmless
<1>4. QED
  BY <1>2, <1>3

LEMMA CommonServer ==
  ASSUME ServerInv, CommonNext, UNCHANGED registry
  PROVE  ServerInv'
<1>1. HandshakeInv'
  BY CommonStep DEF ServerInv
<1>2. (\A t \in Sockets : Harmless(t)) /\ UNCHANGED <<clients, beside>>
  BY CommonFacts DEF ServerInv, HandshakeInv, registry
<1>3. RegistryIsExact'
  BY <1>2 DEF ServerInv, RegistryIsExact, RegistryTypes, Harmless
<1>4. QED
  BY <1>1, <1>2, <1>3, NobodyServed DEF ServerInv, RegistryTypes

\* The id arrives: the handshake waits for the socket that is served, if any.
LEMMA ServerIdentifyStep ==
  ASSUME ServerInv, NEW s \in Sockets, ServerIdentify(s) \/ ServerResume(s)
  PROVE  ServerInv'
<1>0. HandshakeTypes /\ HandshakeInv
  BY DEF ServerInv, HandshakeInv
<1>1. PICK n \in {"waiting", "hook"} :
        /\ stage' = [stage EXCEPT ![s] = n]
        /\ n = "waiting" => stage[s] = "identity" /\ waitsFor' = [waitsFor EXCEPT ![s] = clients[IdOf[s]]]
        /\ n = "hook" => waitsFor' = waitsFor /\ (stage[s] = "resumed" \/ ~ServerMustWait(s))
        /\ UNCHANGED <<link, connectionCount, pendingSockets, limiter, stopped>>
  BY DEF ServerIdentify, ServerResume, GoTo
<1>2. /\ stage[s] \in {"identity", "resumed"} /\ UNCHANGED clients
      /\ beside \subseteq beside' /\ beside' \subseteq Ids
      /\ stage[s] = "identity" /\ FindsClosing(s) => IdOf[s] \in beside'
  BY HostHandshakeAssumption
     DEF ServerIdentify, ServerResume, registry, ServerInv, RegistryTypes
<1>3. /\ \A t \in Sockets : stage'[t] = IF t = s THEN n ELSE stage[t]
      /\ \A t \in Sockets : t # s => waitsFor'[t] = waitsFor[t]
      /\ n = "waiting" => waitsFor'[s] = clients[IdOf[s]]
      /\ waitsFor' \in [Sockets -> Sockets \cup {None}]
  BY <1>0, <1>1, HostHandshakeAssumption DEF HandshakeTypes, ServerInv, RegistryTypes
<1>4. HandshakeInv'
  BY <1>0, <1>1, <1>2, <1>3, GoesOn DEF Handshaking, Asking
<1>5. \A t \in Sockets : stage'[t] = "attached" => stage[t] = "attached"
  BY <1>1, <1>3
<1>6. \A t \in Sockets : stage[t] = "attached" /\ IdOf[t] = IdOf[s] /\ IdOf[s] \in Orderly \ beside'
                          => clients[IdOf[s]] = t
  BY <1>2 DEF ServerInv, RegistryIsExact
<1>7. Alone'
  <2>1. ASSUME n = "hook", IdOf[s] \in Orderly \ beside', NEW t \in Sockets, stage[t] = "attached"
        PROVE  IdOf[t] # IdOf[s]
    <3>1. CASE stage[s] = "resumed"
      BY <1>2, <2>1, <3>1 DEF ServerInv, Alone, Late
    <3>2. CASE stage[s] = "identity" /\ ~ServerMustWait(s)
      BY <1>2, <1>6, <2>1, <3>2, HostHandshakeAssumption DEF ServerMustWait, FindsClosing
    <3>3. QED
      BY <1>1, <1>2, <2>1, <3>1, <3>2
  <2>2. QED
    BY <1>1, <1>2, <1>3, <1>5, <2>1 DEF ServerInv, Alone, Late
<1>8. WaitsForServed'
  BY <1>1, <1>2, <1>3, <1>5, <1>6 DEF ServerInv, WaitsForServed
<1>9. RegistryIsExact'
  <2>1. ASSUME NEW t \in Sockets, stage[t] = "attached" PROVE stage'[t] = "attached"
    BY <1>2, <1>3, <2>1
  <2>2. QED
    BY <1>2, <1>5, <2>1 DEF ServerInv, RegistryIsExact, RegistryTypes
<1>10. QED
  BY <1>2, <1>4, <1>7, <1>8, <1>9 DEF ServerInv, RegistryTypes

\* A client is admitted; nobody of its id is served, if it is orderly.
LEMMA ServerAdmitStep ==
  ASSUME ServerInv, NEW s \in Sockets, ServerAdmit(s)
  PROVE  ServerInv'
<1>0. HandshakeTypes /\ HandshakeInv
  BY DEF ServerInv, HandshakeInv
<1>1. /\ stage[s] = "finalize" /\ ~stopped
      /\ stage' = [stage EXCEPT ![s] = "attached"]
      /\ pendingSockets' = pendingSockets \ {s}
      /\ clients' = [clients EXCEPT ![IdOf[s]] = s]
      /\ UNCHANGED <<link, waitsFor, connectionCount, attempts, stopped, beside>>
  BY DEF ServerAdmit, limiter
<1>2. \A t \in Sockets : stage'[t] = IF t = s THEN "attached" ELSE stage[t]
  BY <1>0, <1>1 DEF HandshakeTypes
<1>3. HandshakeInv'
  <2>1. HandshakeTypes'
    BY <1>0, <1>1 DEF HandshakeTypes, Stages
  <2>2. Counted'
    BY <1>0, <1>1, CountKept DEF HandshakeInv, Alive
  <2>3. Reached'
    BY <1>0, <1>1, <1>2 DEF HandshakeInv, Reached, NewIsUnlinked, OpenIsListed,
     StopReachesEverySocket
  <2>4. OneAttempt'
    BY <1>0, <1>2 DEF HandshakeInv, OneAttempt, Handshaking, Asking
  <2>5. Guarded'
    <3>1. Guessing' \subseteq Guessing
      BY <1>2 DEF Guessing
    <3>2. QED
      BY <1>0, <1>1, <3>1, GuardKept
  <2>6. QED
    BY <2>1, <2>2, <2>3, <2>4, <2>5 DEF HandshakeInv
<1>4. \A t \in Sockets : stage'[t] = "attached" => t = s \/ stage[t] = "attached"
  BY <1>2
<1>5. \A t \in Sockets : t # s /\ stage[t] \in Handshaking /\ IdOf[t] = IdOf[s]
                          => IdOf[s] \notin Orderly
  BY <1>0, <1>1 DEF HandshakeInv, OneAttempt, Handshaking, Asking
<1>6. Alone'
  BY <1>1, <1>2, <1>4, <1>5 DEF ServerInv, Alone, Late, Handshaking, Asking
<1>7. WaitsForServed'
  BY <1>1, <1>2, <1>4, <1>5 DEF ServerInv, WaitsForServed, Handshaking
<1>8. /\ RegistryTypes'
      /\ \A i \in Ids : clients'[i] = IF i = IdOf[s] THEN s ELSE clients[i]
  BY <1>1 DEF ServerInv, RegistryTypes
<1>9. RegistryIsExact'
  <2>1. \A i \in Ids : clients'[i] # None => stage'[clients'[i]] = "attached" /\ IdOf[clients'[i]] = i
    BY <1>2, <1>8 DEF ServerInv, RegistryIsExact, RegistryTypes
  <2>2. ASSUME NEW t \in Sockets, stage'[t] = "attached", IdOf[t] \in Orderly \ beside'
        PROVE  clients'[IdOf[t]] = t
    <3>1. CASE t = s
      BY <1>8, <3>1, HostHandshakeAssumption
    <3>2. CASE t # s
      <4>1. stage[t] = "attached"
        BY <1>4, <2>2, <3>2
      <4>2. IdOf[t] # IdOf[s]
        BY <1>1, <2>2, <4>1 DEF ServerInv, Alone, Late
      <4>3. QED
        BY <1>1, <1>8, <2>2, <4>1, <4>2, HostHandshakeAssumption DEF ServerInv, RegistryIsExact
    <3>3. QED
      BY <3>1, <3>2
  <2>3. QED
    BY <2>1, <2>2 DEF RegistryIsExact
<1>10. QED
  BY <1>3, <1>6, <1>7, <1>8, <1>9 DEF ServerInv

\* The host is stopped: no socket is open.
LEMMA ServerAdmitFailsStep ==
  ASSUME ServerInv, NEW s \in Sockets, ServerAdmitFails(s)
  PROVE  ServerInv'
<1>0. HandshakeTypes /\ HandshakeInv
  BY DEF ServerInv, HandshakeInv
<1>1. /\ stage[s] = "finalize" /\ stopped
      /\ stage' = [stage EXCEPT ![s] = "over"]
      /\ link' = [link EXCEPT ![s] = IF @ = "open" THEN "closing" ELSE @]
      /\ UNCHANGED <<waitsFor, connectionCount, pendingSockets, attempts, stopped, clients, beside>>
  BY DEF ServerAdmitFails, limiter, registry
<1>2. \A t \in Sockets : link[t] # "open"
  BY <1>0, <1>1 DEF HandshakeInv, Reached, StopReachesEverySocket
<1>3. /\ \A t \in Sockets : stage'[t] = IF t = s THEN "over" ELSE stage[t]
      /\ link' = link
  BY <1>0, <1>1, <1>2 DEF HandshakeTypes
<1>4. HandshakeInv'
  <2>1. HandshakeTypes'
    BY <1>0, <1>1, <1>3 DEF HandshakeTypes, Stages
  <2>2. Counted'
    BY <1>0, <1>1, <1>3, CountKept DEF HandshakeInv, Alive
  <2>3. Reached'
    BY <1>0, <1>1, <1>2, <1>3 DEF HandshakeInv, Reached, NewIsUnlinked, OpenIsListed,
     StopReachesEverySocket
  <2>4. OneAttempt'
    BY <1>0, <1>3 DEF HandshakeInv, OneAttempt, Handshaking, Asking
  <2>5. Guarded'
    <3>1. Guessing' \subseteq Guessing
      BY <1>3 DEF Guessing
    <3>2. QED
      BY <1>0, <1>1, <3>1, GuardKept
  <2>6. QED
    BY <2>1, <2>2, <2>3, <2>4, <2>5 DEF HandshakeInv
<1>5. \A t \in Sockets :
        /\ stage'[t] = "attached" <=> stage[t] = "attached"
        /\ stage'[t] \in Late \cup {"waiting"} => stage'[t] = stage[t]
  BY <1>1, <1>3 DEF Late
<1>6. RegistryIsExact'
  BY <1>1, <1>5 DEF ServerInv, RegistryIsExact, RegistryTypes
<1>7. Alone' /\ WaitsForServed'
  BY <1>1, <1>5 DEF ServerInv, Alone, WaitsForServed, Late
<1>8. QED
  BY <1>1, <1>4, <1>6, <1>7 DEF ServerInv, RegistryTypes

\* The close of a socket deletes the entry of its id, which for an orderly
\* client is its own.
LEMMA ServerDropStep ==
  ASSUME ServerInv, NEW s \in Sockets, ServerDrop(s)
  PROVE  ServerInv'
<1>0. HandshakeTypes /\ HandshakeInv
  BY DEF ServerInv, HandshakeInv
<1>1. s \in Alive /\ CloseSocket(s) /\ clients' = AfterClose(s) /\ UNCHANGED beside
  BY DEF ServerDrop
<1>2. /\ stage' = StageAfterClose({s}) /\ Dispatch({s}) /\ UNCHANGED waitsFor
  BY <1>1 DEF CloseSocket
<1>3. \A t \in Sockets :
        /\ stage'[t] \in {stage[t], "over", "resumed"}
        /\ stage'[t] = "resumed" => stage[t] \in {"waiting", "resumed"}
        /\ t = s /\ stage[t] \in Asking \cup {"attached"} => stage'[t] = "over"
        /\ t # s /\ stage[t] # "waiting" => stage'[t] = stage[t]
        /\ stage[t] = "waiting" =>
             stage'[t] = IF waitsFor[t] \in {s} THEN "resumed" ELSE "waiting"
  BY <1>0, <1>2, AfterCloses
<1>4. \A t \in Sockets : link'[t] = IF t = s THEN "closed" ELSE link[t]
  BY <1>0, <1>1, <1>2 DEF Dispatch, HandshakeTypes
<1>5. HandshakeInv'
  BY <1>0, <1>1, SocketCloses
<1>6. \A t \in Sockets : stage'[t] = "attached" => stage[t] = "attached" /\ t # s
  BY <1>3 DEF Asking
<1>7. Alone'
  <2> SUFFICES ASSUME NEW u \in Sockets, NEW t \in Sockets,
                      stage'[u] \in Late, IdOf[u] \in Orderly \ beside,
                      stage'[t] = "attached", IdOf[t] = IdOf[u]
               PROVE  FALSE
    BY <1>1 DEF Alone
  <2>1. stage[t] = "attached" /\ t # s
    BY <1>6
  <2>2. stage[u] = "waiting"
    BY <1>3, <2>1 DEF ServerInv, Alone, Late
  <2>3. waitsFor[u] = s
    BY <1>3, <2>2 DEF Late
  <2>4. QED
    BY <2>1, <2>2, <2>3 DEF ServerInv, WaitsForServed
<1>8. WaitsForServed'
  BY <1>1, <1>2, <1>3, <1>6 DEF ServerInv, WaitsForServed
<1>9. /\ RegistryTypes'
      /\ \A i \in Ids : clients'[i] = IF stage[s] = "attached" /\ i = IdOf[s] THEN None ELSE clients[i]
  BY <1>1 DEF AfterClose, ServerInv, RegistryTypes
<1>10. RegistryIsExact'
  <2>1. \A i \in Ids : clients'[i] # None => stage'[clients'[i]] = "attached" /\ IdOf[clients'[i]] = i
    <3> SUFFICES ASSUME NEW i \in Ids, clients'[i] # None
                 PROVE  stage'[clients'[i]] = "attached" /\ IdOf[clients'[i]] = i
      OBVIOUS
    <3>1. clients'[i] = clients[i] /\ clients[i] \in Sockets
      BY <1>9 DEF ServerInv, RegistryTypes
    <3>2. stage[clients[i]] = "attached" /\ IdOf[clients[i]] = i
      BY <3>1 DEF ServerInv, RegistryIsExact
    <3>3. clients[i] # s
      BY <1>9, <3>1, <3>2
    <3>4. QED
      BY <1>3, <3>1, <3>2, <3>3
  <2>2. ASSUME NEW t \in Sockets, stage'[t] = "attached", IdOf[t] \in Orderly \ beside'
        PROVE  clients'[IdOf[t]] = t
    <3>1. stage[t] = "attached" /\ t # s /\ clients[IdOf[t]] = t
      BY <1>1, <1>6, <2>2 DEF ServerInv, RegistryIsExact
    <3>2. ~(stage[s] = "attached" /\ IdOf[t] = IdOf[s])
      BY <1>1, <2>2, <3>1 DEF ServerInv, RegistryIsExact
    <3>3. QED
      BY <1>9, <3>1, <3>2, HostHandshakeAssumption
  <2>3. QED
    BY <2>1, <2>2 DEF RegistryIsExact
<1>11. QED
  BY <1>5, <1>7, <1>8, <1>9, <1>10 DEF ServerInv

\* The attachments are what stop() needs beside the pending sockets.
LEMMA StopServer ==
  ASSUME ServerInv, ServerStop
  PROVE  ServerInv'
<1>1. StopHost(Attached) /\ clients' = [i \in Ids |-> None] /\ UNCHANGED beside
  BY DEF ServerStop
<1>2. HandshakeInv'
  <2>1. Attached \in SUBSET Sockets
        /\ \A s \in Sockets : stage[s] = "attached" /\ link[s] = "open" => s \in Attached
    BY DEF Attached
  <2>2. QED
    BY <1>1, <2>1, StopStep DEF ServerInv
<1>3. \A t \in Sockets : stage'[t] # "attached"
  <2>1. stage' = StageAfterClose(Attached) /\ Attached \in SUBSET Sockets
    BY <1>1 DEF StopHost, Attached
  <2>2. \A t \in Sockets :
          /\ stage'[t] \in {stage[t], "over", "resumed"}
          /\ t \in Attached /\ stage[t] \in Asking \cup {"attached"} => stage'[t] = "over"
    BY <2>1, AfterCloses DEF ServerInv, HandshakeInv
  <2>3. QED
    BY <2>2 DEF Attached
<1>4. QED
  BY <1>1, <1>2, <1>3 DEF ServerInv, RegistryTypes, RegistryIsExact, Alone, WaitsForServed

LEMMA StepServer == ServerInv /\ [ServerNext]_serverVars => ServerInv'
<1>1. ASSUME ServerInv, UNCHANGED serverVars PROVE ServerInv'
  BY <1>1 DEF serverVars, registry, handshakeVars, ServerInv, HandshakeInv, HandshakeTypes, Counted, CountIsExact,
     Alive, Reached, NewIsUnlinked, OpenIsListed, StopReachesEverySocket,
     OneAttempt, Guarded, GuessesAreBounded, RoomForFailure, RegistryTypes, RegistryIsExact,
     Alone, WaitsForServed
<1>2. QED
  BY <1>1, CommonServer, ServerIdentifyStep, ServerAdmitStep, ServerAdmitFailsStep, ServerDropStep, StopServer DEF ServerNext

\* The inductive invariant of the server host holds.
THEOREM ServerInvHolds == ServerSpec => []ServerInv
<1>1. QED
  BY InitServer, StepServer, PTL DEF ServerSpec

\* connectionCount is exact and never above maxConnections.
THEOREM ServerCountIsExact == ServerSpec => []CountIsExact
<1>1. ServerInv => CountIsExact
  BY DEF ServerInv, HandshakeInv, Counted
<1>2. QED
  BY <1>1, ServerInvHolds, PTL

\* stop() leaves no socket open.
THEOREM ServerStopReachesAll == ServerSpec => []StopReachesEverySocket
<1>1. ServerInv => StopReachesEverySocket
  BY DEF ServerInv, HandshakeInv, Reached
<1>2. QED
  BY <1>1, ServerInvHolds, PTL

\* The failed passwords of a key are bounded.
THEOREM ServerGuessesAreBounded == ServerSpec => []GuessesAreBounded
<1>1. ServerInv => GuessesAreBounded
  BY DEF ServerInv, HandshakeInv, Guarded
<1>2. QED
  BY <1>1, ServerInvHolds, PTL

\* The registry names attached sockets of their own ids, and an orderly client's
\* open attached socket is the one it names, unless the client came back while its
\* last socket was still closing.
THEOREM RegistryIsTrue == ServerSpec => []RegistryIsExact
<1>1. ServerInv => RegistryIsExact
  BY DEF ServerInv
<1>2. QED
  BY <1>1, ServerInvHolds, PTL

(***************************************************************************)
(* ClientHost.                                                             *)
(***************************************************************************)
LastTypes == lastSocket \in Sockets \cup {None}

\* The only attached socket that is alive is the last one.
OneServer ==
  /\ \A s \in Sockets : stage[s] = "attached" /\ s \in Alive => s = lastSocket
  /\ lastSocket # None => stage[lastSocket] \in {"attached", "over"}

\* The last socket is open and belongs to the orderly server i.
Serves(i) ==
  i \in Orderly /\ lastSocket # None /\ link[lastSocket] = "open" /\ IdOf[lastSocket] = i

\* Another handshake of that server waits for it, or did not tell its id yet.
PlaceIsKept ==
  \A s \in Sockets :
    Serves(IdOf[s]) => /\ stage[s] \notin Late
                       /\ stage[s] = "waiting" => waitsFor[s] = lastSocket

ClientInv == HandshakeInv /\ LastTypes /\ OneServer /\ PlaceIsKept

LEMMA InitClient == ClientInit => ClientInv
<1> SUFFICES ASSUME ClientInit PROVE ClientInv
  OBVIOUS
<1>1. HandshakeInv
  BY InitHandshake DEF ClientInit
<1>2. (\A s \in Sockets : stage[s] = "new") /\ lastSocket = None
  BY DEF ClientInit, HandshakeInit
<1>3. QED
  BY <1>1, <1>2 DEF ClientInv, LastTypes, OneServer, PlaceIsKept, Serves

\* Steps after which the host serves nobody new, and nobody stops waiting for the
\* socket that is served.
LEMMA CommonClient ==
  ASSUME ClientInv, CommonNext, UNCHANGED lastSocket
  PROVE  ClientInv'
<1>1. HandshakeInv'
  BY CommonStep DEF ClientInv
<1>2. \A t \in Sockets : Harmless(t)
  BY CommonFacts DEF ClientInv, HandshakeInv
<1>3. OneServer'
  BY <1>2 DEF ClientInv, OneServer, LastTypes, Harmless
<1>4. \A i : Serves(i)' => Serves(i) /\ link'[lastSocket] = "open"
  BY <1>2 DEF ClientInv, OneServer, LastTypes, Harmless, Serves
<1>5. PlaceIsKept'
  <2> SUFFICES ASSUME NEW s \in Sockets, Serves(IdOf[s])'
               PROVE  /\ stage'[s] \notin Late
                      /\ stage'[s] = "waiting" => waitsFor'[s] = lastSocket
    BY DEF PlaceIsKept, Serves
  <2>1. /\ lastSocket \in Sockets /\ link'[lastSocket] = "open"
        /\ stage[s] \notin Late
        /\ stage[s] = "waiting" => waitsFor[s] = lastSocket
    BY <1>4 DEF ClientInv, PlaceIsKept, LastTypes, Serves
  <2>2. QED
    BY <1>2, <2>1 DEF Harmless, Gone
<1>6. QED
  BY <1>1, <1>3, <1>5 DEF ClientInv, LastTypes

\* Steps that give handshake s up.
LEMMA GivenUp ==
  ASSUME ClientInv, NEW s \in Sockets, stage[s] \in Handshaking, GiveUp(s),
         UNCHANGED <<limiter, lastSocket>>
  PROVE  ClientInv'
<1>0. HandshakeTypes /\ HandshakeInv
  BY DEF ClientInv, HandshakeInv
<1>1. HandshakeInv'
  <2>1. UNCHANGED attempts /\ attempts' \in [Keys -> Nat]
    BY <1>0 DEF limiter, HandshakeTypes
  <2>2. Core' /\ Guessing' = Guessing \ {s}
    BY <1>0, <2>1, GivesUp
  <2>3. QED
    BY <1>0, <2>1, <2>2, GuardKept DEF Core, HandshakeInv
<1>2. /\ \A t \in Sockets : stage'[t] = IF t = s THEN "over" ELSE stage[t]
      /\ \A t \in Sockets : link'[t] \in {link[t], "closed"}
      /\ waitsFor' = waitsFor
  BY <1>0 DEF GiveUp, Dispatch, HandshakeTypes
<1>3. OneServer'
  BY <1>2 DEF ClientInv, OneServer, LastTypes, Alive, Handshaking, Asking
<1>4. PlaceIsKept'
  BY <1>2 DEF ClientInv, PlaceIsKept, LastTypes, Serves, Late
<1>5. QED
  BY <1>1, <1>3, <1>4 DEF ClientInv, LastTypes

\* The id arrives: the handshake waits for the last socket, or goes on.
LEMMA ClientIdentifyStep ==
  ASSUME ClientInv, NEW s \in Sockets, ClientIdentify(s) \/ ClientResume(s)
  PROVE  ClientInv'
<1>0. HandshakeTypes /\ HandshakeInv
  BY DEF ClientInv, HandshakeInv
<1>1. stage[s] \in {"identity", "resumed"} /\ UNCHANGED lastSocket
  BY DEF ClientIdentify, ClientResume
<1>2. ASSUME NEW n \in {"waiting", "hook"}, stage' = [stage EXCEPT ![s] = n],
             n = "hook" => UNCHANGED waitsFor /\ (stage[s] = "resumed" \/ ~ClientMustWait(s)),
             n = "waiting" => ClientMustWait(s) /\ waitsFor' = [waitsFor EXCEPT ![s] = lastSocket],
             UNCHANGED <<link, connectionCount, pendingSockets, limiter, stopped>>
      PROVE  ClientInv'
  <2>1. /\ \A t \in Sockets : stage'[t] = IF t = s THEN n ELSE stage[t]
        /\ \A t \in Sockets : t # s => waitsFor'[t] = waitsFor[t]
        /\ n = "waiting" => waitsFor'[s] = lastSocket
        /\ waitsFor' \in [Sockets -> Sockets \cup {None}]
    BY <1>0, <1>2 DEF HandshakeTypes, ClientInv, LastTypes
  <2>2. HandshakeInv'
    BY <1>0, <1>1, <1>2, <2>1, GoesOn DEF Handshaking, Asking
  <2>3. OneServer'
    BY <1>1, <1>2, <2>1 DEF ClientInv, OneServer, LastTypes, Alive
  <2>4. n = "hook" => ~Serves(IdOf[s])
    BY <1>2 DEF ClientInv, PlaceIsKept, ClientMustWait, Serves, Late
  <2>5. PlaceIsKept'
    BY <1>1, <1>2, <2>1, <2>4 DEF ClientInv, PlaceIsKept, Serves, Late
  <2>6. QED
    BY <1>1, <2>2, <2>3, <2>5 DEF ClientInv, LastTypes
<1>3. ASSUME StartHook(s), stage[s] = "resumed" \/ ~ClientMustWait(s)
      PROVE  ClientInv'
  <2>1. CASE GoTo(s, "hook")
    BY <1>2, <1>3, <2>1 DEF GoTo
  <2>2. CASE GiveUp(s) /\ UNCHANGED limiter
    BY <1>1, <2>2, GivenUp DEF Handshaking, Asking
  <2>3. QED
    BY <1>3, <2>1, <2>2 DEF StartHook
<1>4. CASE ClientMustWait(s) /\ stage' = [stage EXCEPT ![s] = "waiting"]
           /\ waitsFor' = [waitsFor EXCEPT ![s] = lastSocket]
           /\ UNCHANGED <<link, connectionCount, pendingSockets, limiter, stopped>>
  BY <1>2, <1>4
<1>5. QED
  BY <1>3, <1>4 DEF ClientIdentify, ClientResume

\* The router takes the socket and closes the one it had.
LEMMA ClientAdmitStep ==
  ASSUME ClientInv, NEW s \in Sockets, ClientAdmit(s)
  PROVE  ClientInv'
<1>0. HandshakeTypes /\ HandshakeInv
  BY DEF ClientInv, HandshakeInv
<1>1. /\ stage[s] = "finalize" /\ ~stopped
      /\ stage' = [StageAfterClose(Replaced) EXCEPT ![s] = "attached"]
      /\ link' = [t \in Sockets |-> IF t \in Replaced THEN "closed" ELSE link[t]]
      /\ connectionCount' = connectionCount - Cardinality(Replaced)
      /\ pendingSockets' = pendingSockets \ {s}
      /\ lastSocket' = s
      /\ UNCHANGED <<waitsFor, attempts, stopped>>
  BY DEF ClientAdmit, limiter
<1>2. Replaced \in SUBSET Sockets /\ Replaced \subseteq Alive
  BY DEF Replaced, Alive
<1>3. s \notin Replaced
  <2>1. s # lastSocket
    <3>1. CASE lastSocket = None
      BY <3>1, HostHandshakeAssumption
    <3>2. CASE lastSocket # None
      BY <1>1, <3>2 DEF ClientInv, OneServer
    <3>3. QED
      BY <3>1, <3>2
  <2>2. QED
    BY <2>1 DEF Replaced
<1>4. /\ StageAfterClose(Replaced) \in [Sockets -> Stages]
      /\ \A t \in Sockets :
           /\ StageAfterClose(Replaced)[t] \in {stage[t], "over", "resumed"}
           /\ StageAfterClose(Replaced)[t] = "resumed" => stage[t] \in {"waiting", "resumed"}
           /\ t \in Replaced /\ stage[t] \in Asking \cup {"attached"}
                => StageAfterClose(Replaced)[t] = "over"
           /\ t \notin Replaced /\ stage[t] # "waiting" => StageAfterClose(Replaced)[t] = stage[t]
  BY <1>0, <1>2, AfterCloses
<1>5. \A t \in Sockets :
        IF t = s THEN stage'[t] = "attached"
        ELSE /\ stage'[t] \in {stage[t], "over", "resumed"}
             /\ stage'[t] = "resumed" => stage[t] \in {"waiting", "resumed"}
             /\ t \in Replaced /\ stage[t] = "attached" => stage'[t] = "over"
             /\ t \notin Replaced /\ stage[t] # "waiting" => stage'[t] = stage[t]
  BY <1>1, <1>4
<1>6. HandshakeInv'
  <2>1. Counted'
    <3>1. Alive' = Alive \ Replaced /\ Replaced \cap Alive = Replaced
      BY <1>1, <1>2 DEF Alive
    <3>2. QED
      BY <1>0, <1>1, <3>1, CountDown DEF HandshakeInv
  <2>2. HandshakeTypes'
    <3>1. connectionCount' \in Int
      <4>1. IsFiniteSet(Replaced)
        BY <1>0, <1>2, FS_Subset DEF HandshakeInv, Counted
      <4>2. QED
        BY <1>0, <1>1, <4>1, FS_CardinalityType DEF HandshakeTypes
    <3>2. stage' \in [Sockets -> Stages]
      BY <1>1, <1>4 DEF Stages
    <3>3. QED
      BY <1>0, <1>1, <3>1, <3>2 DEF HandshakeTypes
  <2>3. Reached'
    <3>1. NewIsUnlinked'
      BY <1>0, <1>1, <1>2, <1>5 DEF HandshakeInv, Reached, NewIsUnlinked, Alive
    <3>2. OpenIsListed'
      BY <1>0, <1>1, <1>5 DEF HandshakeInv, Reached, OpenIsListed
    <3>3. StopReachesEverySocket'
      BY <1>0, <1>1 DEF HandshakeInv, Reached, StopReachesEverySocket
    <3>4. QED
      BY <3>1, <3>2, <3>3 DEF Reached
  <2>4. OneAttempt'
    BY <1>0, <1>5 DEF HandshakeInv, OneAttempt, Handshaking, Asking
  <2>5. Guarded'
    <3>1. Guessing' \subseteq Guessing
      BY <1>5 DEF Guessing
    <3>2. QED
      BY <1>0, <1>1, <3>1, GuardKept
  <2>6. QED
    BY <2>1, <2>2, <2>3, <2>4, <2>5 DEF HandshakeInv
<1>7. OneServer'
  <2>1. ASSUME NEW t \in Sockets, t # s, stage'[t] = "attached"
        PROVE  t \notin Alive'
    <3>1. stage[t] = "attached" /\ t \notin Replaced
      BY <1>5, <2>1
    <3>2. t \notin Alive
      BY <3>1 DEF ClientInv, OneServer, Replaced
    <3>3. QED
      BY <1>1, <3>2 DEF Alive
  <2>2. QED
    BY <1>1, <1>5, <2>1 DEF OneServer
<1>8. PlaceIsKept'
  <2>1. ASSUME NEW t \in Sockets, IdOf[t] = IdOf[s], IdOf[s] \in Orderly
        PROVE  stage'[t] \notin Late \cup {"waiting"}
    BY <1>0, <1>1, <1>5, <2>1 DEF HandshakeInv, OneAttempt, Late, Handshaking, Asking
  <2>2. QED
    BY <1>1, <2>1 DEF PlaceIsKept, Serves
<1>9. QED
  BY <1>1, <1>6, <1>7, <1>8 DEF ClientInv, LastTypes

\* The host is stopped: no socket is open.
LEMMA ClientAdmitFailsStep ==
  ASSUME ClientInv, NEW s \in Sockets, ClientAdmitFails(s)
  PROVE  ClientInv'
<1>0. HandshakeTypes /\ HandshakeInv
  BY DEF ClientInv, HandshakeInv
<1>1. /\ stage[s] = "finalize" /\ stopped
      /\ stage' = [stage EXCEPT ![s] = "over"]
      /\ link' = [link EXCEPT ![s] = IF @ = "open" THEN "closing" ELSE @]
      /\ UNCHANGED <<waitsFor, connectionCount, pendingSockets, attempts, stopped, lastSocket>>
  BY DEF ClientAdmitFails, limiter
<1>2. \A t \in Sockets : link[t] # "open"
  BY <1>0, <1>1 DEF HandshakeInv, Reached, StopReachesEverySocket
<1>3. /\ \A t \in Sockets : stage'[t] = IF t = s THEN "over" ELSE stage[t]
      /\ link' = link
  BY <1>0, <1>1, <1>2 DEF HandshakeTypes
<1>4. HandshakeInv'
  <2>1. HandshakeTypes'
    BY <1>0, <1>1, <1>3 DEF HandshakeTypes, Stages
  <2>2. Counted'
    BY <1>0, <1>1, <1>3, CountKept DEF HandshakeInv, Alive
  <2>3. Reached'
    BY <1>0, <1>1, <1>2, <1>3 DEF HandshakeInv, Reached, NewIsUnlinked, OpenIsListed,
     StopReachesEverySocket
  <2>4. OneAttempt'
    BY <1>0, <1>3 DEF HandshakeInv, OneAttempt, Handshaking, Asking
  <2>5. Guarded'
    <3>1. Guessing' \subseteq Guessing
      BY <1>3 DEF Guessing
    <3>2. QED
      BY <1>0, <1>1, <3>1, GuardKept
  <2>6. QED
    BY <2>1, <2>2, <2>3, <2>4, <2>5 DEF HandshakeInv
<1>5. OneServer'
  BY <1>1, <1>3 DEF ClientInv, OneServer, LastTypes, Alive
<1>6. PlaceIsKept'
  BY <1>1, <1>2, <1>3 DEF PlaceIsKept, Serves, ClientInv, LastTypes
<1>7. QED
  BY <1>1, <1>4, <1>5, <1>6 DEF ClientInv, LastTypes

LEMMA ClientDropStep ==
  ASSUME ClientInv, NEW s \in Sockets, ClientDrop(s)
  PROVE  ClientInv'
<1>0. HandshakeTypes /\ HandshakeInv
  BY DEF ClientInv, HandshakeInv
<1>1. s \in Alive /\ CloseSocket(s) /\ UNCHANGED lastSocket
  BY DEF ClientDrop
<1>2. /\ stage' = StageAfterClose({s}) /\ Dispatch({s}) /\ UNCHANGED waitsFor
  BY <1>1 DEF CloseSocket
<1>3. \A t \in Sockets :
        /\ stage'[t] \in {stage[t], "over", "resumed"}
        /\ stage'[t] = "resumed" => stage[t] \in {"waiting", "resumed"}
        /\ t = s /\ stage[t] \in Asking \cup {"attached"} => stage'[t] = "over"
        /\ t # s /\ stage[t] # "waiting" => stage'[t] = stage[t]
        /\ stage[t] = "waiting" =>
             stage'[t] = IF waitsFor[t] \in {s} THEN "resumed" ELSE "waiting"
  BY <1>0, <1>2, AfterCloses
<1>4. \A t \in Sockets : link'[t] = IF t = s THEN "closed" ELSE link[t]
  BY <1>0, <1>1, <1>2 DEF Dispatch, HandshakeTypes
<1>5. HandshakeInv'
  BY <1>0, <1>1, SocketCloses
<1>6. OneServer'
  BY <1>1, <1>3, <1>4 DEF ClientInv, OneServer, LastTypes, Alive
<1>7. PlaceIsKept'
  <2> SUFFICES ASSUME NEW t \in Sockets, Serves(IdOf[t])'
               PROVE  /\ stage'[t] \notin Late
                      /\ stage'[t] = "waiting" => waitsFor'[t] = lastSocket
    BY <1>1 DEF PlaceIsKept, Serves
  <2>1. lastSocket # s /\ Serves(IdOf[t])
    BY <1>1, <1>4 DEF ClientInv, LastTypes, Serves
  <2>2. stage[t] \notin Late /\ (stage[t] = "waiting" => waitsFor[t] = lastSocket)
    BY <2>1 DEF ClientInv, PlaceIsKept
  <2>3. QED
    BY <1>2, <1>3, <2>1, <2>2 DEF Late
<1>8. QED
  BY <1>1, <1>5, <1>6, <1>7 DEF ClientInv, LastTypes

LEMMA StopClient ==
  ASSUME ClientInv, ClientStop
  PROVE  ClientInv'
<1>1. StopHost({lastSocket} \ {None}) /\ lastSocket' = None
  BY DEF ClientStop
<1>2. HandshakeInv'
  <2>1. /\ {lastSocket} \ {None} \in SUBSET Sockets
        /\ \A s \in Sockets : stage[s] = "attached" /\ link[s] = "open"
                               => s \in {lastSocket} \ {None}
    BY HostHandshakeAssumption DEF ClientInv, OneServer, LastTypes, Alive
  <2>2. QED
    BY <1>1, <2>1, StopStep DEF ClientInv
<1>3. OneServer'
  <2>1. \A t \in Sockets : stage'[t] = "attached" => t \notin Alive'
    <3> SUFFICES ASSUME NEW t \in Sockets, stage'[t] = "attached", t \in Alive'
                 PROVE  FALSE
      OBVIOUS
    <3>1. {lastSocket} \ {None} \in SUBSET Sockets
      BY DEF ClientInv, LastTypes
    <3>2. stage[t] = "attached" /\ t \notin {lastSocket} \ {None}
      BY <1>1, <3>1, AfterCloses DEF StopHost, ClientInv, HandshakeInv
    <3>3. t \in Alive
      BY <1>1 DEF StopHost, Alive
    <3>4. QED
      BY <3>2, <3>3, HostHandshakeAssumption DEF ClientInv, OneServer
  <2>2. QED
    BY <1>1, <2>1 DEF OneServer
<1>4. PlaceIsKept' /\ LastTypes'
  BY <1>1 DEF PlaceIsKept, Serves, LastTypes
<1>5. QED
  BY <1>2, <1>3, <1>4 DEF ClientInv

LEMMA StepClient == ClientInv /\ [ClientNext]_clientVars => ClientInv'
<1>1. ASSUME ClientInv, UNCHANGED clientVars PROVE ClientInv'
  BY <1>1 DEF clientVars, handshakeVars, ClientInv, HandshakeInv, HandshakeTypes, Counted, CountIsExact,
     Alive, Reached, NewIsUnlinked, OpenIsListed, StopReachesEverySocket,
     OneAttempt, Guarded, GuessesAreBounded, RoomForFailure, LastTypes, OneServer, PlaceIsKept, Serves
<1>2. QED
  BY <1>1, CommonClient, ClientIdentifyStep, ClientAdmitStep, ClientAdmitFailsStep, ClientDropStep, StopClient DEF ClientNext

\* The inductive invariant of the client host holds.
THEOREM ClientInvHolds == ClientSpec => []ClientInv
<1>1. QED
  BY InitClient, StepClient, PTL DEF ClientSpec

\* connectionCount is exact and never above maxConnections.
THEOREM ClientCountIsExact == ClientSpec => []CountIsExact
<1>1. ClientInv => CountIsExact
  BY DEF ClientInv, HandshakeInv, Counted
<1>2. QED
  BY <1>1, ClientInvHolds, PTL

\* stop() leaves no socket open.
THEOREM ClientStopReachesAll == ClientSpec => []StopReachesEverySocket
<1>1. ClientInv => StopReachesEverySocket
  BY DEF ClientInv, HandshakeInv, Reached
<1>2. QED
  BY <1>1, ClientInvHolds, PTL

\* The failed passwords of a key are bounded.
THEOREM ClientGuessesAreBounded == ClientSpec => []GuessesAreBounded
<1>1. ClientInv => GuessesAreBounded
  BY DEF ClientInv, HandshakeInv, Guarded
<1>2. QED
  BY <1>1, ClientInvHolds, PTL

\* A live connection of a server that makes one attempt at a time is never
\* replaced by a newer one of the same id.
THEOREM PlacesAreKept == ClientSpec => LiveServerKeepsItsPlace
<1> DEFINE Keeps ==
      lastSocket # None /\ link[lastSocket] = "open" /\ IdOf[lastSocket] \in Orderly
      /\ lastSocket' \notin {None, lastSocket}
      => IdOf[lastSocket'] # IdOf[lastSocket]
<1>1. ClientInv /\ [ClientNext]_clientVars => [Keeps]_clientVars
  <2> SUFFICES ASSUME ClientInv, ClientNext, lastSocket' \notin {None, lastSocket},
                      Serves(IdOf[lastSocket])
               PROVE  IdOf[lastSocket'] # IdOf[lastSocket]
    BY DEF Serves
  <2>1. PICK s \in Sockets : ClientAdmit(s)
    BY DEF ClientNext, ClientIdentify, ClientResume, ClientAdmitFails, ClientDrop, ClientStop
  <2>2. lastSocket' = s /\ stage[s] \in Late
    BY <2>1 DEF ClientAdmit, Late
  <2>3. QED
    BY <2>2 DEF ClientInv, PlaceIsKept
<1>2. QED
  BY <1>1, InitClient, StepClient, PTL DEF ClientSpec, LiveServerKeepsItsPlace

=============================================================================
