------------------------- MODULE PacketDeliveryProofs -------------------------
(* The safety of the ACK system, for every value of its constants: packets *)
(* are accepted once per retention, entries of _pendingAcks belong to live *)
(* attempts, reports of delivery are true, and so PacketDelivery implements*)
(* AckedDelivery; and on a network that answers in time no socket is closed*)
(* for want of an ACK, while the calls of a packet keep to one socket.     *)
EXTENDS PacketDelivery, FiniteSetTheorems, TLAPS

(***************************************************************************)
(* Facts about the operators the actions are built from.                   *)
(***************************************************************************)
LEMMA CleanupType ==
  ASSUME TypeOK, NEW C
  PROVE  Cleanup(C) \in [Packets -> Closures \cup {NoEntry}]
BY DEF TypeOK, Cleanup

\* Only a call that waits is interrupted by a close.
WaitingInRange == \A o \in Ops : Waiting(o) => attempt[o] <= MaxAttempts

LEMMA AfterCloseType ==
  ASSUME TypeOK, WaitingInRange, NEW S
  PROVE  /\ PhaseAfterClose(S) \in [Ops -> Phases]
         /\ AttemptAfterClose(S) \in [Ops -> 1 .. MaxAttempts + 1]
         /\ GhostsAfterClose(S) \subseteq Closures
<1> USE PacketDeliveryAssumption DEF TypeOK
<1>1. PhaseAfterClose(S) \in [Ops -> Phases]
  BY DEF PhaseAfterClose, Phases
<1>2. AttemptAfterClose(S) \in [Ops -> 1 .. MaxAttempts + 1]
  <2> SUFFICES ASSUME NEW o \in Ops
               PROVE  (IF o \in Interrupted(S) THEN attempt[o] + 1 ELSE attempt[o])
                        \in 1 .. MaxAttempts + 1
    BY DEF AttemptAfterClose
  <2>1. CASE o \in Interrupted(S)
    <3>1. attempt[o] <= MaxAttempts
      BY <2>1 DEF Interrupted, WaitingInRange
    <3>2. attempt[o] \in Nat /\ attempt[o] >= 1 /\ MaxAttempts \in Nat
      OBVIOUS
    <3> QED
      BY <2>1, <3>1, <3>2
  <2>2. CASE o \notin Interrupted(S)
    BY <2>2
  <2> QED
    BY <2>1, <2>2
<1>3. GhostsAfterClose(S) \subseteq Closures
  BY DEF GhostsAfterClose
<1> QED
  BY <1>1, <1>2, <1>3

\* After a close, the calls that still wait are those that were not on it.
LEMMA WaitingAfterClose ==
  ASSUME TypeOK, WaitingInRange, NEW S, NEW o \in Ops, PhaseAfterClose(S)[o] = "waiting"
  PROVE  /\ Waiting(o) /\ sock[o] \notin S
         /\ AttemptAfterClose(S)[o] = attempt[o]
         /\ attempt[o] <= MaxAttempts
<1>1. o \notin Interrupted(S)
  BY DEF PhaseAfterClose
<1>2. Waiting(o)
  BY <1>1 DEF PhaseAfterClose, Waiting
<1> QED
  BY <1>1, <1>2 DEF Interrupted, AttemptAfterClose, WaitingInRange

\* What one attempt may put into the entries, ghosts and wires.
LEMMA AttemptTypes ==
  ASSUME TypeOK, NEW o \in Ops, attempt[o] <= MaxAttempts
  PROVE  /\ Closure(o) \in Closures /\ PacketOf[o] \in Packets
         /\ [wire EXCEPT ![sock[o]] = Append(@, PacketOf[o])] \in [Sockets -> Seq(Packets)]
<1>1. Closure(o) \in Closures /\ PacketOf[o] \in Packets /\ sock[o] \in Sockets
  BY PacketDeliveryAssumption DEF TypeOK, Closure, Closures, Attempts
<1>2. /\ wire \in [Sockets -> Seq(Packets)]
      /\ Append(wire[sock[o]], PacketOf[o]) \in Seq(Packets)
  BY <1>1 DEF TypeOK
<1> QED
  BY <1>1, <1>2

\* The receiver takes a packet and answers it.
LEMMA AcknowledgeType ==
  ASSUME TypeOK, NEW s \in Sockets, NEW p \in Packets, Arriving(s, p), Acknowledge(s, p)
  PROVE  /\ wire' \in [Sockets -> Seq(Packets)]
         /\ acks' \in [Sockets -> Seq(Packets)]
<1>1. Tail(wire[s]) \in Seq(Packets) /\ Append(acks[s], p) \in Seq(Packets)
  BY DEF TypeOK, Arriving
<1> QED
  BY <1>1 DEF TypeOK, Acknowledge

-----------------------------------------------------------------------------
(***************************************************************************)
(* Every variable keeps its type: in particular an attempt is never        *)
(* numbered beyond MaxAttempts + 1, and an entry of _pendingAcks is always *)
(* a closure of a call.  TypeOK is not inductive alone: that a timeout or  *)
(* a close may count one attempt more rests on waiting calls being within  *)
(* the budget.                                                             *)
(***************************************************************************)
THEOREM TypeCorrect == Spec => [](TypeOK /\ WaitingInRange)
<1> USE PacketDeliveryAssumption
<1>1. Init => TypeOK /\ WaitingInRange
  <2> SUFFICES ASSUME Init PROVE TypeOK /\ WaitingInRange
    OBVIOUS
  <2>1. TypeOK
    BY DEF Init, TypeOK, Phases
  <2>2. WaitingInRange
    BY DEF Init, WaitingInRange, Waiting
  <2> QED
    BY <2>1, <2>2
<1>2. TypeOK /\ WaitingInRange /\ [Next]_vars => TypeOK' /\ WaitingInRange'
  <2> SUFFICES ASSUME TypeOK, WaitingInRange, [Next]_vars
               PROVE  TypeOK' /\ WaitingInRange'
    OBVIOUS
  <2> USE DEF senderVars, receiverVars
  <2>1. ASSUME NEW o \in Ops, Begin(o) PROVE TypeOK' /\ WaitingInRange'
    BY <2>1 DEF Begin, Phases, TypeOK, WaitingInRange, Waiting
  <2>2. ASSUME NEW o \in Ops, TryClosed(o) PROVE TypeOK' /\ WaitingInRange'
    BY <2>2 DEF TryClosed, Phases, Returned, TypeOK, WaitingInRange, Waiting
  <2>3. ASSUME NEW o \in Ops, Try(o) PROVE TypeOK' /\ WaitingInRange'
    <3>1. /\ attempt[o] <= MaxAttempts
          /\ Attempt(o, pendingAcks, ghosts, phase, senderOpen)
          /\ UNCHANGED <<sock, attempt, aborted, senderOpen, receiverVars, acks>>
      BY <2>3 DEF Try, Ready
    <3>3. \E c \in {NoEntry, Closure(o)} :
            pendingAcks' = [pendingAcks EXCEPT ![PacketOf[o]] = c]
      BY <3>1 DEF Attempt
    <3>4. pendingAcks' \in [Packets -> Closures \cup {NoEntry}]
      BY <3>1, <3>3, AttemptTypes DEF TypeOK
    <3>5. PICK r \in Phases : phase' = [phase EXCEPT ![o] = r]
      BY <3>1 DEF Attempt, Phases, Returned
    <3>6. phase' \in [Ops -> Phases] /\ \A w \in Ops \ {o} : phase'[w] = phase[w]
      BY <3>5 DEF TypeOK
    <3>7. ghosts' \subseteq ghosts \cup {Closure(o)}
      BY <3>1 DEF Attempt
    <3>8. ghosts' \subseteq Closures
      BY <3>1, <3>7, AttemptTypes DEF TypeOK
    <3>9. wire' \in [Sockets -> Seq(Packets)]
      <4>1. wire' = wire \/ wire' = [wire EXCEPT ![sock[o]] = Append(@, PacketOf[o])]
        BY <3>1 DEF Attempt, TypeOK
      <4>2. wire \in [Sockets -> Seq(Packets)]
        BY DEF TypeOK
      <4>3. [wire EXCEPT ![sock[o]] = Append(@, PacketOf[o])] \in [Sockets -> Seq(Packets)]
        BY <3>1, AttemptTypes
      <4> QED
        BY <4>1, <4>2, <4>3
    <3>10. TypeOK'
      BY <3>1, <3>4, <3>6, <3>8, <3>9 DEF TypeOK
    <3>11. WaitingInRange'
      BY <3>1, <3>6 DEF WaitingInRange, Waiting
    <3> QED
      BY <3>10, <3>11
  <2>4. ASSUME NEW o \in Ops, NEW S, CloseAnd(S, o, "failed"), S \subseteq Sockets,
               UNCHANGED <<sock, aborted, receiverVars, wire, acks>>
        PROVE  TypeOK' /\ WaitingInRange'
    <3>1. /\ pendingAcks' \in [Packets -> Closures \cup {NoEntry}]
          /\ phase' = [PhaseAfterClose(S) EXCEPT ![o] = "failed"]
          /\ attempt' = AttemptAfterClose(S)
          /\ ghosts' \subseteq Closures
          /\ senderOpen' \subseteq senderOpen
      BY <2>4, CleanupType, AfterCloseType DEF CloseAnd
    <3>2. TypeOK'
      BY <2>4, <3>1, AfterCloseType DEF TypeOK, Phases, Returned
    <3>3. WaitingInRange'
      <4> SUFFICES ASSUME NEW w \in Ops, phase'[w] = "waiting"
                   PROVE  attempt'[w] <= MaxAttempts
        BY DEF WaitingInRange, Waiting
      <4>1. PhaseAfterClose(S)[w] = "waiting"
        BY <3>1, AfterCloseType
      <4> QED
        BY <3>1, <4>1, WaitingAfterClose
    <3> QED
      BY <3>2, <3>3
  <2>5. ASSUME NEW o \in Ops, TrySocketFull(o) \/ GiveUp(o) PROVE TypeOK' /\ WaitingInRange'
    <3>1. /\ CloseAnd({sock[o]} \cap senderOpen, o, "failed")
          /\ UNCHANGED <<sock, aborted, receiverVars, wire, acks>>
      BY <2>5 DEF TrySocketFull, GiveUp
    <3>2. {sock[o]} \cap senderOpen \subseteq Sockets
      BY DEF TypeOK
    <3> QED
      BY <2>4, <3>1, <3>2
  <2>20. ASSUME NEW o \in Ops, NEW s \in Sockets, FailTotalFull(o, s)
         PROVE  TypeOK' /\ WaitingInRange'
    <3>1. /\ CloseAnd(Saturated(s), o, "failed")
          /\ UNCHANGED <<sock, aborted, receiverVars, wire, acks>>
      BY <2>20 DEF FailTotalFull
    <3>2. Saturated(s) \subseteq Sockets
      BY DEF Saturated
    <3> QED
      BY <2>4, <3>1, <3>2
  <2>6. ASSUME NEW o \in Ops, NEW s \in Sockets, TryTotalFull(o, s)
        PROVE  TypeOK' /\ WaitingInRange'
    <3>1. /\ phase[o] = "trying" /\ attempt[o] <= MaxAttempts
          /\ senderOpen' = senderOpen \ Saturated(s)
          /\ attempt' = AttemptAfterClose(Saturated(s))
          /\ Attempt(o, Cleanup(Listening(Saturated(s))), GhostsAfterClose(Saturated(s)), PhaseAfterClose(Saturated(s)),
                     senderOpen \ Saturated(s))
          /\ UNCHANGED <<sock, aborted, receiverVars, acks>>
      BY <2>6 DEF TryTotalFull, AtTotalLimit, Ready
    <3>2. /\ Cleanup(Listening(Saturated(s))) \in [Packets -> Closures \cup {NoEntry}]
          /\ GhostsAfterClose(Saturated(s)) \in SUBSET Closures
          /\ PhaseAfterClose(Saturated(s)) \in [Ops -> Phases]
          /\ AttemptAfterClose(Saturated(s)) \in [Ops -> 1 .. MaxAttempts + 1]
      BY CleanupType, AfterCloseType
    <3>3. \E c \in {NoEntry, Closure(o)} :
            pendingAcks' = [Cleanup(Listening(Saturated(s))) EXCEPT ![PacketOf[o]] = c]
      BY <3>1 DEF Attempt
    <3>4. pendingAcks' \in [Packets -> Closures \cup {NoEntry}]
      <4>1. Closure(o) \in Closures /\ PacketOf[o] \in Packets
        BY <3>1, AttemptTypes
      <4>2. Cleanup(Listening(Saturated(s))) \in [Packets -> Closures \cup {NoEntry}]
        BY <3>2
      <4> QED
        BY <3>3, <4>1, <4>2
    <3>5. PICK r \in Phases : phase' = [PhaseAfterClose(Saturated(s)) EXCEPT ![o] = r]
      BY <3>1 DEF Attempt, Phases, Returned
    <3>6. phase' \in [Ops -> Phases] /\ \A w \in Ops \ {o} : phase'[w] = PhaseAfterClose(Saturated(s))[w]
      BY <3>2, <3>5 DEF TypeOK
    <3>7. ghosts' \subseteq GhostsAfterClose(Saturated(s)) \cup {Closure(o)}
      BY <3>1 DEF Attempt
    <3>8. ghosts' \subseteq Closures
      BY <3>1, <3>2, <3>7, AttemptTypes DEF TypeOK
    <3>9. wire' \in [Sockets -> Seq(Packets)]
      <4>1. wire' = wire \/ wire' = [wire EXCEPT ![sock[o]] = Append(@, PacketOf[o])]
        BY <3>1 DEF Attempt, TypeOK
      <4>2. wire \in [Sockets -> Seq(Packets)]
        BY DEF TypeOK
      <4>3. [wire EXCEPT ![sock[o]] = Append(@, PacketOf[o])] \in [Sockets -> Seq(Packets)]
        BY <3>1, AttemptTypes
      <4> QED
        BY <4>1, <4>2, <4>3
    <3>10. TypeOK'
      BY <3>1, <3>2, <3>4, <3>6, <3>8, <3>9 DEF TypeOK
    <3>11. WaitingInRange'
      <4> SUFFICES ASSUME NEW w \in Ops, phase'[w] = "waiting"
                   PROVE  attempt'[w] <= MaxAttempts
        BY DEF WaitingInRange, Waiting
      <4>1. CASE w = o
        <5>1. attempt'[o] = attempt[o]
          BY <3>1 DEF AttemptAfterClose, Interrupted, Waiting
        <5> QED
          BY <3>1, <4>1, <5>1
      <4>2. CASE w # o
        <5>1. PhaseAfterClose(Saturated(s))[w] = "waiting"
          BY <3>6, <4>2
        <5>2. AttemptAfterClose(Saturated(s))[w] = attempt[w] /\ attempt[w] <= MaxAttempts
          BY <5>1, WaitingAfterClose, Zenon
        <5> QED
          BY <3>1, <5>2
      <4> QED
        BY <4>1, <4>2
    <3> QED
      BY <3>10, <3>11
  <2>7. ASSUME NEW o \in Ops, Timeout(o) PROVE TypeOK' /\ WaitingInRange'
    <3>1. attempt[o] + 1 \in 1 .. MaxAttempts + 1
      BY <2>7 DEF Timeout, WaitingInRange, TypeOK
    <3>2. pendingAcks' \in [Packets -> Closures \cup {NoEntry}]
      BY <2>7, CleanupType DEF Timeout
    <3>3. TypeOK'
      BY <2>7, <3>1, <3>2 DEF Timeout, TypeOK, Phases
    <3>4. WaitingInRange'
      BY <2>7 DEF Timeout, WaitingInRange, Waiting, TypeOK
    <3> QED
      BY <3>3, <3>4
  <2>8. ASSUME NEW o \in Ops, Abort(o) PROVE TypeOK' /\ WaitingInRange'
    <3>1. pendingAcks' \in [Packets -> Closures \cup {NoEntry}]
      BY <2>8, CleanupType DEF Abort, TypeOK
    <3>2. phase' = phase \/ phase' = [phase EXCEPT ![o] = "cancelled"]
      BY <2>8 DEF Abort
    <3>3. TypeOK'
      BY <2>8, <3>1, <3>2 DEF Abort, TypeOK, Phases, Returned
    <3>4. WaitingInRange'
      BY <2>8, <3>2 DEF Abort, WaitingInRange, Waiting, TypeOK
    <3> QED
      BY <3>3, <3>4
  <2>9. ASSUME NEW g \in Closures, GhostTimeout(g) PROVE TypeOK' /\ WaitingInRange'
    <3>1. pendingAcks' \in [Packets -> Closures \cup {NoEntry}]
      BY <2>9, CleanupType DEF GhostTimeout
    <3> QED
      BY <2>9, <3>1 DEF GhostTimeout, TypeOK, WaitingInRange, Waiting
  <2>10. ASSUME NEW s \in Sockets, ReceiveAck(s) PROVE TypeOK' /\ WaitingInRange'
    <3> DEFINE p == Head(acks[s])
               c == pendingAcks[p]
    <3>1. p \in Packets /\ Tail(acks[s]) \in Seq(Packets)
      BY <2>10 DEF ReceiveAck, TypeOK
    <3>2. acks' \in [Sockets -> Seq(Packets)]
      BY <2>10, <3>1 DEF ReceiveAck, TypeOK
    <3>3. /\ pendingAcks' \in [Packets -> Closures \cup {NoEntry}]
          /\ ghosts' \subseteq Closures
      BY <2>10, <3>1 DEF ReceiveAck, TypeOK
    <3>4. phase' = phase
          \/ \E w \in Ops : phase' = [phase EXCEPT ![w] = "delivered"]
      <4>1. CASE c = NoEntry
        BY <2>10, <4>1 DEF ReceiveAck
      <4>2. CASE c # NoEntry
        <5>1. c \in Closures
          BY <3>1, <4>2 DEF TypeOK
        <5>2. c[1] \in Ops
          BY <5>1 DEF Closures
        <5>3. phase' = [phase EXCEPT ![c[1]] = IF c \in ghosts THEN @ ELSE "delivered"]
          BY <2>10, <4>2 DEF ReceiveAck
        <5> QED
          BY <5>2, <5>3 DEF TypeOK
      <4> QED
        BY <4>1, <4>2
    <3>5. TypeOK'
      BY <2>10, <3>2, <3>3, <3>4 DEF ReceiveAck, TypeOK, Phases, Returned
    <3>6. WaitingInRange'
      BY <2>10, <3>4 DEF ReceiveAck, TypeOK, WaitingInRange, Waiting
    <3> QED
      BY <3>5, <3>6
  <2>11. ASSUME NEW s \in Sockets, NEW p \in Packets, ReceiveDuplicate(s, p)
         PROVE  TypeOK' /\ WaitingInRange'
    BY <2>11, AcknowledgeType DEF ReceiveDuplicate, TypeOK, WaitingInRange, Waiting
  <2>12. ASSUME NEW s \in Sockets, NEW p \in Packets, Accept(s, p)
         PROVE  TypeOK' /\ WaitingInRange'
    <3>1. /\ wire' \in [Sockets -> Seq(Packets)]
          /\ acks' \in [Sockets -> Seq(Packets)]
      BY <2>12, AcknowledgeType DEF Accept
    <3>2. /\ processed' \subseteq Packets
          /\ buckets' \subseteq Clients
          /\ accepted' \in [Packets -> Nat]
      BY <2>12 DEF Accept, TypeOK
    <3>3. TypeOK'
      BY <2>12, <3>1, <3>2 DEF Accept, TypeOK
    <3>4. WaitingInRange'
      BY <2>12 DEF Accept, WaitingInRange, Waiting
    <3> QED
      BY <3>3, <3>4
  <2>13. ASSUME NEW s \in Sockets, NEW p \in Packets, Refuse(s, p)
         PROVE  TypeOK' /\ WaitingInRange'
    <3>1. wire' \in [Sockets -> Seq(Packets)]
      BY <2>13 DEF Refuse, TypeOK
    <3> QED
      BY <2>13, <3>1 DEF Refuse, TypeOK, WaitingInRange, Waiting
  <2>14. ASSUME NEW s \in Sockets, SenderCloses(s) PROVE TypeOK' /\ WaitingInRange'
    <3>1. TypeOK'
      BY <2>14, CleanupType, AfterCloseType DEF SenderCloses, TypeOK
    <3>2. WaitingInRange'
      BY <2>14, WaitingAfterClose DEF SenderCloses, WaitingInRange, Waiting
    <3> QED
      BY <3>1, <3>2
  <2>15. ASSUME NEW s \in Sockets, ReceiverCloses(s) PROVE TypeOK' /\ WaitingInRange'
    <3>1. wire' \in [Sockets -> Seq(Packets)]
      BY <2>15 DEF ReceiverCloses, TypeOK
    <3> QED
      BY <2>15, <3>1 DEF ReceiverCloses, TypeOK, WaitingInRange, Waiting
  <2>16. ASSUME NEW s \in Sockets, Lose(s) PROVE TypeOK' /\ WaitingInRange'
    <3>1. acks' \in [Sockets -> Seq(Packets)]
      BY <2>16 DEF Lose, TypeOK
    <3> QED
      BY <2>16, <3>1 DEF Lose, TypeOK, WaitingInRange, Waiting
  <2>17. ASSUME NEW p \in Packets, Expire(p) PROVE TypeOK' /\ WaitingInRange'
    BY <2>17 DEF Expire, TypeOK, WaitingInRange, Waiting
  <2>18. ASSUME NEW c \in Clients, DropBucket(c) PROVE TypeOK' /\ WaitingInRange'
    BY <2>18 DEF DropBucket, TypeOK, WaitingInRange, Waiting
  <2>19. CASE UNCHANGED vars
    BY <2>19 DEF vars, TypeOK, WaitingInRange, Waiting
  <2> QED
    BY <2>1, <2>2, <2>3, <2>5, <2>6, <2>7, <2>8, <2>9, <2>10, <2>11, <2>12, <2>13,
       <2>14, <2>15, <2>16, <2>17, <2>18, <2>19, <2>20 DEF Next, Step, Receive
<1>3. QED
  BY <1>1, <1>2, PTL DEF Spec

-----------------------------------------------------------------------------
(***************************************************************************)
(* What a step may change, by component.                                   *)
(***************************************************************************)

\* A step of the sender or of the network leaves the receiver's memory alone.
LEMMA MemoryChanges ==
  ASSUME [Next]_vars
  PROVE  \/ UNCHANGED <<processed, accepted, expired>>
         \/ \E s \in Sockets, p \in Packets : Accept(s, p)
         \/ \E p \in Packets : Expire(p)
<1> USE DEF receiverVars, senderVars
<1>1. ASSUME NEW o \in Ops, Begin(o) \/ Step(o) \/ Timeout(o) \/ Abort(o)
      PROVE  UNCHANGED <<processed, accepted, expired>>
  BY <1>1 DEF Begin, Step, TryClosed, Try, TrySocketFull, TryTotalFull,
              FailTotalFull, CloseAnd, GiveUp, Timeout, Abort
<1>2. ASSUME NEW g \in Closures, GhostTimeout(g)
      PROVE  UNCHANGED <<processed, accepted, expired>>
  BY <1>2 DEF GhostTimeout
<1>3. ASSUME NEW s \in Sockets, ReceiveAck(s) \/ SenderCloses(s) \/ ReceiverCloses(s) \/ Lose(s)
      PROVE  UNCHANGED <<processed, accepted, expired>>
  BY <1>3 DEF ReceiveAck, SenderCloses, ReceiverCloses, Lose
<1>4. ASSUME NEW s \in Sockets, NEW p \in Packets, ReceiveDuplicate(s, p) \/ Refuse(s, p)
      PROVE  UNCHANGED <<processed, accepted, expired>>
  BY <1>4 DEF ReceiveDuplicate, Refuse
<1>5. ASSUME NEW c \in Clients, DropBucket(c)
      PROVE  UNCHANGED <<processed, accepted, expired>>
  BY <1>5 DEF DropBucket
<1>6. CASE UNCHANGED vars
  BY <1>6 DEF vars
<1> QED
  BY <1>1, <1>2, <1>3, <1>4, <1>5, <1>6 DEF Next, Receive

-----------------------------------------------------------------------------
(***************************************************************************)
(* _acceptPacket says true once per retention period of a packet id, for   *)
(* any number of calls, attempts, sockets and clients.                     *)
(***************************************************************************)
THEOREM AcceptsOnce == Spec => []AcceptedOncePerRetention
<1> USE PacketDeliveryAssumption
<1>1. Init => AcceptedOncePerRetention
  BY DEF Init, AcceptedOncePerRetention
<1>2. TypeOK /\ AcceptedOncePerRetention /\ [Next]_vars => AcceptedOncePerRetention'
  <2> SUFFICES ASSUME TypeOK, AcceptedOncePerRetention, [Next]_vars
               PROVE  AcceptedOncePerRetention'
    OBVIOUS
  <2>1. CASE UNCHANGED <<processed, accepted, expired>>
    BY <2>1 DEF AcceptedOncePerRetention
  <2>2. ASSUME NEW s \in Sockets, NEW p \in Packets, Accept(s, p)
        PROVE  AcceptedOncePerRetention'
    <3>1. /\ processed' = processed \cup {p} /\ p \notin processed
          /\ accepted' = [accepted EXCEPT ![p] = @ + 1]
          /\ expired' = expired
      BY <2>2 DEF Accept
    <3>2. accepted \in [Packets -> Nat] /\ expired \in [Packets -> Nat]
      BY DEF TypeOK
    <3> QED
      BY <3>1, <3>2 DEF AcceptedOncePerRetention
  <2>3. ASSUME NEW p \in Packets, Expire(p)
        PROVE  AcceptedOncePerRetention'
    <3>1. /\ processed' = processed \ {p} /\ p \in processed
          /\ expired' = [expired EXCEPT ![p] = @ + 1]
          /\ accepted' = accepted
      BY <2>3 DEF Expire
    <3>2. accepted \in [Packets -> Nat] /\ expired \in [Packets -> Nat]
      BY DEF TypeOK
    <3> QED
      BY <3>1, <3>2 DEF AcceptedOncePerRetention
  <2> QED
    BY <2>1, <2>2, <2>3, MemoryChanges
<1>3. QED
  BY <1>1, <1>2, TypeCorrect, PTL DEF Spec

-----------------------------------------------------------------------------
(***************************************************************************)
(* Entries of _pendingAcks.                                                *)
(***************************************************************************)

\* Closure c may be the entry of packet p when gh are the ghosts, ph the phases
\* and at the attempts: it carries p and somebody will still clean it up.
Owned(c, p, gh, ph, at) ==
  /\ PacketOf[c[1]] = p
  /\ c \in gh \/ (ph[c[1]] = "waiting" /\ at[c[1]] = c[2])

\* The same for all entries of a map.
AllOwned(entries, gh, ph, at) ==
  \A p \in Packets : entries[p] # NoEntry => Owned(entries[p], p, gh, ph, at)

LEMMA NoOrphanIsAllOwned ==
  NoOrphanEntry <=> AllOwned(pendingAcks, ghosts, phase, attempt)
BY DEF NoOrphanEntry, AllOwned, Owned, Waiting

\* Closing sockets deletes the entries of the attempts it interrupts.
LEMMA CloseKeepsOwned ==
  ASSUME TypeOK, NoOrphanEntry, NEW S
  PROVE  AllOwned(Cleanup(Listening(S)), GhostsAfterClose(S), PhaseAfterClose(S),
                  AttemptAfterClose(S))
<1> USE PacketDeliveryAssumption
<1> DEFINE entries == Cleanup(Listening(S))
<1> SUFFICES ASSUME NEW p \in Packets, entries[p] # NoEntry
             PROVE  Owned(entries[p], p, GhostsAfterClose(S), PhaseAfterClose(S),
                          AttemptAfterClose(S))
  BY DEF AllOwned
<1> DEFINE c == pendingAcks[p]
<1>1. entries[p] = c /\ ~ \E d \in Listening(S) : PacketOf[d[1]] = p
  BY DEF Cleanup
<1>2. c \in Closures /\ c[1] \in Ops /\ PacketOf[c[1]] = p
  <2>1. c # NoEntry /\ c \in Closures
    BY <1>1 DEF TypeOK
  <2> QED
    BY <2>1 DEF NoOrphanEntry, Closures
<1>3. c \notin Listening(S)
  BY <1>1, <1>2
<1>4. c \in ghosts \/ (Waiting(c[1]) /\ attempt[c[1]] = c[2])
  BY <1>1 DEF NoOrphanEntry
<1>5. CASE c \in ghosts
  <2>1. sock[c[1]] \notin S
    BY <1>3, <1>5 DEF Listening
  <2> QED
    BY <1>1, <1>2, <1>5, <2>1 DEF Owned, GhostsAfterClose
<1>6. CASE Waiting(c[1]) /\ attempt[c[1]] = c[2]
  <2>1. c = Closure(c[1])
    BY <1>2, <1>6 DEF Closures, Closure
  <2>2. sock[c[1]] \notin S
    BY <1>2, <1>3, <1>6, <2>1 DEF Listening
  <2>3. PhaseAfterClose(S)[c[1]] = "waiting" /\ AttemptAfterClose(S)[c[1]] = c[2]
    BY <1>2, <1>6, <2>2 DEF PhaseAfterClose, AttemptAfterClose, Interrupted, Waiting
  <2> QED
    BY <1>1, <1>2, <2>3 DEF Owned
<1> QED
  BY <1>4, <1>5, <1>6

\* Changing the phase of a call that does not wait keeps every entry owned.
LEMMA PhaseKeepsOwned ==
  ASSUME NEW o \in Ops, NEW r, NEW entries, NEW gh, NEW at,
         NEW ph \in [Ops -> Phases], ph[o] # "waiting",
         entries \in [Packets -> Closures \cup {NoEntry}],
         AllOwned(entries, gh, ph, at)
  PROVE  AllOwned(entries, gh, [ph EXCEPT ![o] = r], at)
<1> SUFFICES ASSUME NEW p \in Packets, entries[p] # NoEntry
             PROVE  Owned(entries[p], p, gh, [ph EXCEPT ![o] = r], at)
  BY DEF AllOwned
<1>1. Owned(entries[p], p, gh, ph, at) /\ entries[p][1] \in Ops
  BY DEF AllOwned, Closures
<1> QED
  BY <1>1 DEF Owned

\* The entry that an attempt of o makes is owned, by its wait or by its ghost;
\* the other entries stay as they are.
LEMMA SetKeepsOwned ==
  ASSUME NEW o \in Ops, PacketOf[o] \in Packets, NEW entries, NEW gh, NEW gh2, NEW ph, NEW ph2, NEW at,
         entries \in [Packets -> Closures \cup {NoEntry}],
         AllOwned(entries, gh, ph, at),
         gh \subseteq gh2,
         \A w \in Ops \ {o} : ph2[w] = ph[w],
         ph[o] # "waiting",
         <<o, at[o]>> \in gh2 \/ ph2[o] = "waiting"
  PROVE  AllOwned([entries EXCEPT ![PacketOf[o]] = <<o, at[o]>>], gh2, ph2, at)
<1> DEFINE new == [entries EXCEPT ![PacketOf[o]] = <<o, at[o]>>]
<1> SUFFICES ASSUME NEW p \in Packets, new[p] # NoEntry
             PROVE  Owned(new[p], p, gh2, ph2, at)
  BY DEF AllOwned
<1>1. CASE p = PacketOf[o]
  <2>1. new[p] = <<o, at[o]>>
    BY <1>1
  <2> QED
    BY <1>1, <2>1 DEF Owned
<1>2. CASE p # PacketOf[o]
  <2>1. new[p] = entries[p] /\ Owned(entries[p], p, gh, ph, at) /\ entries[p][1] \in Ops
    BY <1>2 DEF AllOwned, Closures
  <2> QED
    BY <2>1 DEF Owned
<1> QED
  BY <1>1, <1>2

\* Deleting the entry of o's packet frees o to change its phase and attempt.
LEMMA DropKeepsOwned ==
  ASSUME NEW o \in Ops, NEW entries, NEW new, NEW gh, NEW ph, NEW ph2, NEW at, NEW at2,
         entries \in [Packets -> Closures \cup {NoEntry}],
         AllOwned(entries, gh, ph, at),
         \A p \in Packets : new[p] = IF p = PacketOf[o] THEN NoEntry ELSE entries[p],
         \A w \in Ops \ {o} : ph2[w] = ph[w] /\ at2[w] = at[w],
         NEW gh2, gh2 \subseteq gh, \A c \in gh \ gh2 : c[1] = o
  PROVE  AllOwned(new, gh2, ph2, at2)
<1> SUFFICES ASSUME NEW p \in Packets, new[p] # NoEntry
             PROVE  Owned(new[p], p, gh2, ph2, at2)
  BY DEF AllOwned
<1>1. p # PacketOf[o] /\ new[p] = entries[p]
  OBVIOUS
<1>2. Owned(entries[p], p, gh, ph, at) /\ entries[p][1] \in Ops
  BY <1>1 DEF AllOwned, Closures
<1> QED
  BY <1>1, <1>2 DEF Owned

\* The sender's part of a receiver's step or of a loss on the network.
LEMMA ReceiverStep ==
  ASSUME NEW s \in Sockets, Receive(s) \/ ReceiverCloses(s) \/ Lose(s)
  PROVE  UNCHANGED senderVars
<1>1. ASSUME NEW p \in Packets, ReceiveDuplicate(s, p) \/ Accept(s, p) \/ Refuse(s, p)
      PROVE  UNCHANGED senderVars
  BY <1>1 DEF ReceiveDuplicate, Accept, Refuse, senderVars
<1> QED
  BY <1>1 DEF Receive, ReceiverCloses, Lose, senderVars

(***************************************************************************)
(* No entry of _pendingAcks outlives the attempt it was made for, whatever *)
(* the order of ACKs, timeouts, closes, aborts and throwing sends.         *)
(***************************************************************************)
THEOREM EntriesBelongToAttempts == Spec => []NoOrphanEntry
<1> USE PacketDeliveryAssumption
<1>1. Init => NoOrphanEntry
  BY DEF Init, NoOrphanEntry
<1>2. TypeOK /\ WaitingInRange /\ NoOrphanEntry /\ [Next]_vars => NoOrphanEntry'
  <2> SUFFICES ASSUME TypeOK, WaitingInRange, NoOrphanEntry, [Next]_vars
               PROVE  AllOwned(pendingAcks', ghosts', phase', attempt')
    BY DEF NoOrphanEntry, AllOwned, Owned, Waiting
  <2>0. /\ AllOwned(pendingAcks, ghosts, phase, attempt)
        /\ pendingAcks \in [Packets -> Closures \cup {NoEntry}]
        /\ phase \in [Ops -> Phases]
        /\ attempt \in [Ops -> 1 .. MaxAttempts + 1]
        /\ PacketOf \in [Ops -> Packets]
    BY NoOrphanIsAllOwned DEF TypeOK
  <2>1. ASSUME NEW o \in Ops, Begin(o) \/ TryClosed(o)
        PROVE  AllOwned(pendingAcks', ghosts', phase', attempt')
    <3>1. /\ phase[o] # "waiting"
          /\ UNCHANGED <<pendingAcks, ghosts, attempt>>
      BY <2>1 DEF Begin, TryClosed
    <3>2. PICK r : phase' = [phase EXCEPT ![o] = r]
      BY <2>1 DEF Begin, TryClosed
    <3>3. AllOwned(pendingAcks, ghosts, [phase EXCEPT ![o] = r], attempt)
      BY <2>0, <3>1, PhaseKeepsOwned
    <3> QED
      BY <3>1, <3>2, <3>3
  <2>2. ASSUME NEW o \in Ops, NEW entries, NEW gh, NEW ph, NEW at,
               entries \in [Packets -> Closures \cup {NoEntry}],
               ph \in [Ops -> Phases],
               AllOwned(entries, gh, ph, at),
               ph[o] = "trying", at[o] = attempt[o],
               NEW entries2, NEW gh2, NEW ph2, NEW r,
               ph2 = [ph EXCEPT ![o] = r],
               \/ entries2 = [entries EXCEPT ![PacketOf[o]] = NoEntry] /\ gh2 = gh
               \/ /\ entries2 = [entries EXCEPT ![PacketOf[o]] = Closure(o)]
                  /\ \/ r = "waiting" /\ gh2 = gh
                     \/ gh2 = gh \cup {Closure(o)}
        PROVE  AllOwned(entries2, gh2, ph2, at)
    <3>1. \A w \in Ops \ {o} : ph2[w] = ph[w]
      BY <2>2
    <3>2. CASE entries2 = [entries EXCEPT ![PacketOf[o]] = NoEntry] /\ gh2 = gh
      BY <2>2, <3>1, <3>2, DropKeepsOwned
    <3>3. CASE /\ entries2 = [entries EXCEPT ![PacketOf[o]] = Closure(o)]
               /\ \/ r = "waiting" /\ gh2 = gh
                  \/ gh2 = gh \cup {Closure(o)}
      <4>1. <<o, at[o]>> \in gh2 \/ ph2[o] = "waiting"
        BY <2>2, <3>3 DEF Closure
      <4>2. gh \subseteq gh2
        BY <2>2, <3>3
      <4>3. entries2 = [entries EXCEPT ![PacketOf[o]] = <<o, at[o]>>]
        BY <2>2, <3>3 DEF Closure
      <4>4. PacketOf[o] \in Packets /\ ph[o] # "waiting"
        BY <2>2
      <4> QED
        BY <2>2, <3>1, <4>1, <4>2, <4>3, <4>4, SetKeepsOwned
    <3> QED
      BY <2>2, <3>2, <3>3
  <2>15. ASSUME NEW o \in Ops,
                \A p \in Packets : pendingAcks'[p] = IF p = PacketOf[o] THEN NoEntry ELSE pendingAcks[p],
                \A w \in Ops \ {o} : phase'[w] = phase[w] /\ attempt'[w] = attempt[w],
                ghosts' \subseteq ghosts,
                \A c \in ghosts \ ghosts' : c[1] = o
         PROVE  AllOwned(pendingAcks', ghosts', phase', attempt')
    <3> SUFFICES ASSUME NEW p \in Packets, pendingAcks'[p] # NoEntry
                 PROVE  Owned(pendingAcks'[p], p, ghosts', phase', attempt')
      BY DEF AllOwned
    <3>1. p # PacketOf[o] /\ pendingAcks'[p] = pendingAcks[p]
      BY <2>15
    <3>2. Owned(pendingAcks[p], p, ghosts, phase, attempt) /\ pendingAcks[p][1] \in Ops
      BY <2>0, <3>1 DEF AllOwned, Closures
    <3> QED
      BY <2>15, <3>1, <3>2 DEF Owned
  <2>3. ASSUME NEW o \in Ops, Try(o)
        PROVE  AllOwned(pendingAcks', ghosts', phase', attempt')
    <3>1. phase[o] = "trying" /\ attempt' = attempt
      BY <2>3 DEF Try, Ready
    <3>2. \E r : /\ phase' = [phase EXCEPT ![o] = r]
                 /\ \/ pendingAcks' = [pendingAcks EXCEPT ![PacketOf[o]] = NoEntry] /\ ghosts' = ghosts
                    \/ /\ pendingAcks' = [pendingAcks EXCEPT ![PacketOf[o]] = Closure(o)]
                       /\ \/ r = "waiting" /\ ghosts' = ghosts
                          \/ ghosts' = ghosts \cup {Closure(o)}
      BY <2>3 DEF Try, Attempt
    <3> QED
      BY <2>0, <2>2, <3>1, <3>2
  <2>4. ASSUME NEW o \in Ops, NEW s \in Sockets, TryTotalFull(o, s)
        PROVE  AllOwned(pendingAcks', ghosts', phase', attempt')
    <3> DEFINE entries == Cleanup(Listening(Saturated(s)))
               gh == GhostsAfterClose(Saturated(s))
               ph == PhaseAfterClose(Saturated(s))
               at == AttemptAfterClose(Saturated(s))
    <3>1. phase[o] = "trying" /\ attempt' = at
      BY <2>4 DEF TryTotalFull, AtTotalLimit, Ready
    <3>2. \E r : /\ phase' = [ph EXCEPT ![o] = r]
                 /\ \/ pendingAcks' = [entries EXCEPT ![PacketOf[o]] = NoEntry] /\ ghosts' = gh
                    \/ /\ pendingAcks' = [entries EXCEPT ![PacketOf[o]] = Closure(o)]
                       /\ \/ r = "waiting" /\ ghosts' = gh
                          \/ ghosts' = gh \cup {Closure(o)}
      BY <2>4 DEF TryTotalFull, Attempt
    <3>3. AllOwned(entries, gh, ph, at)
      BY CloseKeepsOwned
    <3>4. entries \in [Packets -> Closures \cup {NoEntry}] /\ ph \in [Ops -> Phases]
      BY CleanupType, AfterCloseType
    <3>5. ph[o] = "trying" /\ at[o] = attempt[o]
      BY <3>1 DEF PhaseAfterClose, AttemptAfterClose, Interrupted, Waiting
    <3> HIDE DEF entries, gh, ph, at
    <3> QED
      BY <2>2, <3>1, <3>2, <3>3, <3>4, <3>5
  <2>16. ASSUME NEW o \in Ops, NEW S, phase[o] = "trying", CloseAnd(S, o, "failed")
         PROVE  AllOwned(pendingAcks', ghosts', phase', attempt')
    <3>2. /\ pendingAcks' = Cleanup(Listening(S))
          /\ ghosts' = GhostsAfterClose(S)
          /\ phase' = [PhaseAfterClose(S) EXCEPT ![o] = "failed"]
          /\ attempt' = AttemptAfterClose(S)
      BY <2>16 DEF CloseAnd
    <3>3. PhaseAfterClose(S)[o] # "waiting"
      BY <2>16 DEF PhaseAfterClose
    <3>4. AllOwned(Cleanup(Listening(S)), GhostsAfterClose(S), PhaseAfterClose(S), AttemptAfterClose(S))
      BY CloseKeepsOwned
    <3>5. /\ Cleanup(Listening(S)) \in [Packets -> Closures \cup {NoEntry}]
          /\ PhaseAfterClose(S) \in [Ops -> Phases]
      BY CleanupType, AfterCloseType
    <3> QED
      BY <3>2, <3>3, <3>4, <3>5, PhaseKeepsOwned
  <2>5. ASSUME NEW o \in Ops, TrySocketFull(o) \/ GiveUp(o)
        PROVE  AllOwned(pendingAcks', ghosts', phase', attempt')
    <3>1. phase[o] = "trying" /\ CloseAnd({sock[o]} \cap senderOpen, o, "failed")
      BY <2>5 DEF TrySocketFull, GiveUp, Ready
    <3> QED
      BY <2>16, <3>1
  <2>17. ASSUME NEW o \in Ops, NEW s \in Sockets, FailTotalFull(o, s)
         PROVE  AllOwned(pendingAcks', ghosts', phase', attempt')
    <3>1. phase[o] = "trying" /\ CloseAnd(Saturated(s), o, "failed")
      BY <2>17 DEF FailTotalFull, AtTotalLimit, Ready
    <3> QED
      BY <2>16, <3>1
  <2>6. ASSUME NEW o \in Ops, Timeout(o) \/ Abort(o)
        PROVE  AllOwned(pendingAcks', ghosts', phase', attempt')
    <3>1. /\ \A w \in Ops \ {o} : phase'[w] = phase[w] /\ attempt'[w] = attempt[w]
          /\ ghosts' = ghosts
      BY <2>0, <2>6 DEF Timeout, Abort
    <3>2. CASE pendingAcks' = Cleanup({Closure(o)})
      <4>1. \A p \in Packets : pendingAcks'[p] = IF p = PacketOf[o] THEN NoEntry ELSE pendingAcks[p]
        BY <3>2 DEF Cleanup, Closure
      <4> QED
        BY <3>1, <4>1, <2>15
    <3>3. CASE UNCHANGED <<pendingAcks, phase>> /\ attempt' = attempt
      BY <2>0, <3>1, <3>3
    <3> QED
      BY <2>6, <3>2, <3>3 DEF Timeout, Abort
  <2>7. ASSUME NEW g \in Closures, GhostTimeout(g)
        PROVE  AllOwned(pendingAcks', ghosts', phase', attempt')
    <3>1. /\ g[1] \in Ops
          /\ UNCHANGED <<phase, attempt>>
          /\ ghosts' = ghosts \ {g}
      BY <2>7 DEF GhostTimeout, Closures
    <3>2. \A p \in Packets : pendingAcks'[p] = IF p = PacketOf[g[1]] THEN NoEntry ELSE pendingAcks[p]
      BY <2>7 DEF GhostTimeout, Cleanup
    <3>3. ghosts' \subseteq ghosts /\ \A c \in ghosts \ ghosts' : c[1] = g[1]
      BY <3>1
    <3> QED
      BY <3>1, <3>2, <3>3, <2>15
  <2>8. ASSUME NEW s \in Sockets, ReceiveAck(s)
        PROVE  AllOwned(pendingAcks', ghosts', phase', attempt')
    <3> DEFINE p == Head(acks[s])
               c == pendingAcks[p]
    <3>1. p \in Packets /\ attempt' = attempt
      BY <2>8 DEF ReceiveAck, TypeOK
    <3>2. CASE c = NoEntry
      BY <2>0, <2>8, <3>1, <3>2 DEF ReceiveAck
    <3>3. CASE c # NoEntry
      <4>1. c[1] \in Ops /\ PacketOf[c[1]] = p
        <5>1. c \in Closures
          BY <2>0, <3>1, <3>3
        <5>2. PacketOf[c[1]] = p
          BY <2>0, <3>1, <3>3 DEF AllOwned, Owned
        <5> QED
          BY <5>1, <5>2 DEF Closures
      <4>2. /\ pendingAcks' = [pendingAcks EXCEPT ![p] = NoEntry]
            /\ ghosts' = ghosts \ {c}
            /\ phase' = [phase EXCEPT ![c[1]] = IF c \in ghosts THEN @ ELSE "delivered"]
        BY <2>8, <3>3 DEF ReceiveAck
      <4>3. \A q \in Packets : pendingAcks'[q] = IF q = PacketOf[c[1]] THEN NoEntry ELSE pendingAcks[q]
        BY <2>0, <4>1, <4>2
      <4>4. \A w \in Ops \ {c[1]} : phase'[w] = phase[w] /\ attempt'[w] = attempt[w]
        BY <2>0, <3>1, <4>2
      <4>5. ghosts' \subseteq ghosts /\ \A d \in ghosts \ ghosts' : d[1] = c[1]
        BY <4>2
      <4> HIDE DEF c, p
      <4> QED
        BY <4>1, <4>3, <4>4, <4>5, <2>15
    <3> QED
      BY <3>2, <3>3
  <2>9. ASSUME NEW s \in Sockets, SenderCloses(s)
        PROVE  AllOwned(pendingAcks', ghosts', phase', attempt')
    BY <2>9, CloseKeepsOwned DEF SenderCloses
  <2>10. CASE UNCHANGED senderVars
    BY <2>0, <2>10 DEF senderVars
  <2>11. ASSUME NEW s \in Sockets, Receive(s) \/ ReceiverCloses(s) \/ Lose(s)
         PROVE  UNCHANGED senderVars
    BY <2>11, ReceiverStep
  <2>12. ASSUME NEW p \in Packets, Expire(p) PROVE UNCHANGED senderVars
    BY <2>12 DEF Expire
  <2>13. ASSUME NEW c \in Clients, DropBucket(c) PROVE UNCHANGED senderVars
    BY <2>13 DEF DropBucket
  <2>14. CASE UNCHANGED vars
    BY <2>10, <2>14 DEF vars
  <2> QED
    BY <2>1, <2>3, <2>4, <2>5, <2>6, <2>7, <2>8, <2>9, <2>10, <2>11, <2>12, <2>13, <2>14, <2>17
       DEF Next, Step
<1>3. QED
  BY <1>1, <1>2, TypeCorrect, PTL DEF Spec

-----------------------------------------------------------------------------
(***************************************************************************)
(* Reports.                                                                *)
(***************************************************************************)

\* A step of call o: the other calls at most learn of a close, and o, which has
\* not returned before, does not report delivery.
CallStep(o) ==
  /\ phase[o] \notin Returned
  /\ phase'[o] # "delivered"
  /\ \A w \in Ops \ {o} : \/ phase'[w] = phase[w]
                          \/ phase[w] = "waiting" /\ phase'[w] = "trying"

\* Closing sockets reports nothing.
LEMMA ClosePhases ==
  ASSUME NEW S, NEW w \in Ops
  PROVE  \/ PhaseAfterClose(S)[w] = phase[w]
         \/ phase[w] = "waiting" /\ PhaseAfterClose(S)[w] = "trying"
BY DEF PhaseAfterClose, Interrupted, Waiting

LEMMA CallsTakeCallSteps ==
  ASSUME TypeOK, WaitingInRange, NEW o \in Ops, Begin(o) \/ Step(o) \/ Timeout(o) \/ Abort(o)
  PROVE  CallStep(o) \/ UNCHANGED phase
<1>0. phase \in [Ops -> Phases]
  BY DEF TypeOK
<1>1. CASE Begin(o) \/ TryClosed(o) \/ Timeout(o) \/ Abort(o)
  BY <1>0, <1>1 DEF Begin, TryClosed, Timeout, Abort, Waiting, CallStep, Returned
<1>2. CASE Try(o)
  BY <1>0, <1>2 DEF Try, Ready, Attempt, CallStep, Returned
<1>5. ASSUME NEW S, phase[o] = "trying", CloseAnd(S, o, "failed") PROVE CallStep(o)
  <2> DEFINE ph == PhaseAfterClose(S)
  <2>1. phase[o] = "trying" /\ phase' = [ph EXCEPT ![o] = "failed"]
    BY <1>5 DEF CloseAnd
  <2>2. ph \in [Ops -> Phases]
    BY AfterCloseType
  <2>3. \A w \in Ops : ph[w] = phase[w] \/ (phase[w] = "waiting" /\ ph[w] = "trying")
    BY ClosePhases
  <2> HIDE DEF ph
  <2> QED
    BY <2>1, <2>2, <2>3 DEF CallStep, Returned
<1>3. CASE TrySocketFull(o) \/ GiveUp(o)
  BY <1>3, <1>5 DEF TrySocketFull, GiveUp, Ready
<1>6. ASSUME NEW s \in Sockets, FailTotalFull(o, s) PROVE CallStep(o)
  BY <1>5, <1>6 DEF FailTotalFull, AtTotalLimit, Ready
<1>4. ASSUME NEW s \in Sockets, TryTotalFull(o, s) PROVE CallStep(o)
  <2> DEFINE ph == PhaseAfterClose(Saturated(s))
  <2>1. /\ phase[o] = "trying"
        /\ \E r \in {"waiting", "refused", "cancelled"} : phase' = [ph EXCEPT ![o] = r]
    BY <1>4 DEF TryTotalFull, AtTotalLimit, Ready, Attempt
  <2>2. ph \in [Ops -> Phases]
    BY AfterCloseType
  <2>3. \A w \in Ops : ph[w] = phase[w] \/ (phase[w] = "waiting" /\ ph[w] = "trying")
    BY ClosePhases
  <2> HIDE DEF ph
  <2> QED
    BY <2>1, <2>2, <2>3 DEF CallStep, Returned
<1> QED
  BY <1>1, <1>2, <1>3, <1>4, <1>6 DEF Step

\* An ACK either changes no phase, or makes one call that waits report delivery
\* of the packet the ACK names.
LEMMA AckStep ==
  ASSUME TypeOK, NoOrphanEntry, NEW s \in Sockets, ReceiveAck(s)
  PROVE  \/ UNCHANGED phase
         \/ \E o \in Ops : /\ phase[o] = "waiting"
                          /\ PacketOf[o] = Head(acks[s])
                          /\ phase' = [phase EXCEPT ![o] = "delivered"]
<1> DEFINE p == Head(acks[s])
           c == pendingAcks[p]
<1>1. p \in Packets /\ phase \in [Ops -> Phases] /\ pendingAcks \in [Packets -> Closures \cup {NoEntry}]
  BY DEF ReceiveAck, TypeOK
<1>2. CASE c = NoEntry
  BY <1>2 DEF ReceiveAck
<1>3. CASE c # NoEntry
  <2>1. c[1] \in Ops /\ PacketOf[c[1]] = p /\ (c \in ghosts \/ phase[c[1]] = "waiting")
    BY <1>1, <1>3 DEF NoOrphanEntry, Closures, Waiting
  <2>2. phase' = [phase EXCEPT ![c[1]] = IF c \in ghosts THEN @ ELSE "delivered"]
    BY <1>3 DEF ReceiveAck
  <2> QED
    BY <1>1, <2>1, <2>2
<1> QED
  BY <1>2, <1>3

\* Every step is a step of one call, the arrival of an ACK, a close, or a step
\* that touches no phase.
LEMMA PhaseChanges ==
  ASSUME TypeOK, WaitingInRange, [Next]_vars
  PROVE  \/ UNCHANGED phase
         \/ \E o \in Ops : CallStep(o) /\ UNCHANGED <<processed, accepted, expired>>
         \/ \E s \in Sockets : ReceiveAck(s)
         \/ \E s \in Sockets : SenderCloses(s)
<1>1. ASSUME NEW o \in Ops, Begin(o) \/ Step(o) \/ Timeout(o) \/ Abort(o)
      PROVE  UNCHANGED phase \/ (CallStep(o) /\ UNCHANGED <<processed, accepted, expired>>)
  <2>1. UNCHANGED <<processed, accepted, expired>>
    BY <1>1 DEF Begin, Step, TryClosed, Try, TrySocketFull, TryTotalFull,
                FailTotalFull, CloseAnd, GiveUp, Timeout, Abort,
                receiverVars
  <2> QED
    BY <1>1, <2>1, CallsTakeCallSteps
<1>2. ASSUME NEW g \in Closures, GhostTimeout(g) PROVE UNCHANGED phase
  BY <1>2 DEF GhostTimeout
<1>3. ASSUME NEW s \in Sockets, Receive(s) \/ ReceiverCloses(s) \/ Lose(s) PROVE UNCHANGED phase
  BY <1>3, ReceiverStep DEF senderVars
<1>4. ASSUME NEW p \in Packets, Expire(p) PROVE UNCHANGED phase
  BY <1>4 DEF Expire, senderVars
<1>5. ASSUME NEW c \in Clients, DropBucket(c) PROVE UNCHANGED phase
  BY <1>5 DEF DropBucket, senderVars
<1>6. CASE UNCHANGED vars
  BY <1>6 DEF vars, senderVars
<1> QED
  BY <1>1, <1>2, <1>3, <1>4, <1>5, <1>6 DEF Next

\* Every ACK in flight is for a packet that was accepted.
AcksAreTrue == \A s \in Sockets : \A i \in 1 .. Len(acks[s]) : accepted[acks[s][i]] > 0

LEMMA AcceptedGrows ==
  ASSUME TypeOK, [Next]_vars, NEW p \in Packets, accepted[p] > 0
  PROVE  accepted'[p] > 0
<1>1. ASSUME NEW q \in Packets, accepted' = [accepted EXCEPT ![q] = @ + 1]
      PROVE  accepted'[p] > 0
  BY <1>1 DEF TypeOK
<1> QED
  BY <1>1, MemoryChanges DEF Accept, Expire

\* A step takes ACKs away, or adds the one of a packet that is known by then.
LEMMA AckChanges ==
  ASSUME [Next]_vars
  PROVE  \/ UNCHANGED acks
         \/ \E s \in Sockets : acks[s] # <<>> /\ acks' = [acks EXCEPT ![s] = Tail(@)]
         \/ \E s \in Sockets : acks' = [acks EXCEPT ![s] = <<>>]
         \/ \E s \in Sockets, p \in Packets :
              /\ acks' = [acks EXCEPT ![s] = Append(@, p)]
              /\ p \in processed'
<1>1. ASSUME NEW o \in Ops, Begin(o) \/ Step(o) \/ Timeout(o) \/ Abort(o) PROVE UNCHANGED acks
  BY <1>1 DEF Begin, Step, TryClosed, Try, TrySocketFull, TryTotalFull,
              FailTotalFull, CloseAnd, GiveUp, Timeout, Abort
<1>2. ASSUME NEW g \in Closures, GhostTimeout(g) PROVE UNCHANGED acks
  BY <1>2 DEF GhostTimeout
<1>3. ASSUME NEW s \in Sockets, SenderCloses(s) \/ ReceiverCloses(s) PROVE UNCHANGED acks
  BY <1>3 DEF SenderCloses, ReceiverCloses
<1>4. ASSUME NEW s \in Sockets, NEW p \in Packets, Refuse(s, p) PROVE UNCHANGED acks
  BY <1>4 DEF Refuse
<1>5. ASSUME NEW s \in Sockets, NEW p \in Packets, ReceiveDuplicate(s, p) \/ Accept(s, p)
      PROVE  acks' = [acks EXCEPT ![s] = Append(@, p)] /\ p \in processed'
  BY <1>5 DEF ReceiveDuplicate, Accept, Acknowledge, receiverVars
<1>6. ASSUME NEW s \in Sockets, ReceiveAck(s)
      PROVE  acks[s] # <<>> /\ acks' = [acks EXCEPT ![s] = Tail(@)]
  BY <1>6 DEF ReceiveAck
<1>7. ASSUME NEW s \in Sockets, Lose(s) PROVE acks' = [acks EXCEPT ![s] = <<>>]
  BY <1>7 DEF Lose
<1>8. ASSUME NEW p \in Packets, Expire(p) PROVE UNCHANGED acks
  BY <1>8 DEF Expire
<1>9. ASSUME NEW c \in Clients, DropBucket(c) PROVE UNCHANGED acks
  BY <1>9 DEF DropBucket
<1>10. CASE UNCHANGED vars
  BY <1>10 DEF vars
<1> QED
  BY <1>1, <1>2, <1>3, <1>4, <1>5, <1>6, <1>7, <1>8, <1>9, <1>10 DEF Next, Receive

(***************************************************************************)
(* _sendWithAck answers true only for a packet the peer has accepted.      *)
(* The invariant must also know that an ACK in flight is for an accepted   *)
(* packet, which holds since a known id is one that was accepted           *)
(* (AcceptedOncePerRetention), and that an ACK resolves a call that        *)
(* carries its packet (NoOrphanEntry).                                     *)
(***************************************************************************)
THEOREM DeliveryIsTrue == Spec => [](AcksAreTrue /\ DeliveredWasAccepted)
<1> USE PacketDeliveryAssumption
<1>1. Init => AcksAreTrue /\ DeliveredWasAccepted
  BY DEF Init, AcksAreTrue, DeliveredWasAccepted
<1>2. /\ TypeOK /\ WaitingInRange /\ NoOrphanEntry
      /\ AcceptedOncePerRetention /\ AcceptedOncePerRetention' /\ TypeOK'
      /\ AcksAreTrue /\ DeliveredWasAccepted /\ [Next]_vars
      => AcksAreTrue' /\ DeliveredWasAccepted'
  <2> SUFFICES ASSUME TypeOK, WaitingInRange, NoOrphanEntry,
                      AcceptedOncePerRetention', TypeOK',
                      AcksAreTrue, DeliveredWasAccepted, [Next]_vars
               PROVE  AcksAreTrue' /\ DeliveredWasAccepted'
    OBVIOUS
  <2>1. \A p \in Packets : accepted[p] > 0 => accepted'[p] > 0
    BY AcceptedGrows
  <2>2. \A p \in processed' : accepted'[p] > 0
    BY DEF AcceptedOncePerRetention, TypeOK
  <2>3. AcksAreTrue'
    <3> SUFFICES ASSUME NEW s \in Sockets, NEW i \in 1 .. Len(acks'[s])
                 PROVE  accepted'[acks'[s][i]] > 0
      BY DEF AcksAreTrue
    <3>0. acks \in [Sockets -> Seq(Packets)] /\ acks[s] \in Seq(Packets)
      BY DEF TypeOK
    <3>1. \A j \in 1 .. Len(acks[s]) : acks[s][j] \in Packets /\ accepted'[acks[s][j]] > 0
      <4> SUFFICES ASSUME NEW j \in 1 .. Len(acks[s])
                   PROVE  acks[s][j] \in Packets /\ accepted'[acks[s][j]] > 0
        OBVIOUS
      <4>1. acks[s][j] \in Packets
        BY <3>0
      <4>2. accepted[acks[s][j]] > 0
        BY DEF AcksAreTrue
      <4> QED
        BY <2>1, <4>1, <4>2
    <3>2. CASE acks'[s] = acks[s]
      BY <3>1, <3>2
    <3>3. CASE acks[s] # <<>> /\ acks'[s] = Tail(acks[s])
      <4>1. i + 1 \in 1 .. Len(acks[s]) /\ acks'[s][i] = acks[s][i + 1]
        BY <3>0, <3>3
      <4> QED
        BY <3>1, <4>1
    <3>4. CASE acks'[s] = <<>>
      BY <3>4
    <3>5. ASSUME NEW p \in Packets, acks'[s] = Append(acks[s], p), p \in processed'
          PROVE  accepted'[acks'[s][i]] > 0
      <4>1. CASE i = Len(acks[s]) + 1
        BY <2>2, <3>0, <3>5, <4>1
      <4>2. CASE i \in 1 .. Len(acks[s])
        BY <3>0, <3>1, <3>5, <4>2
      <4>3. i \in 1 .. Len(acks[s]) + 1
        BY <3>0, <3>5
      <4> QED
        BY <3>0, <4>1, <4>2, <4>3
    <3>6. ASSUME NEW r \in Sockets, NEW v, acks' = [acks EXCEPT ![r] = v]
          PROVE  acks'[s] = acks[s] \/ (r = s /\ acks'[s] = v)
      BY <3>0, <3>6
    <3>7. \/ acks'[s] = acks[s]
          \/ acks[s] # <<>> /\ acks'[s] = Tail(acks[s])
          \/ acks'[s] = <<>>
          \/ \E p \in Packets : acks'[s] = Append(acks[s], p) /\ p \in processed'
      BY <3>6, AckChanges
    <3> QED
      BY <3>2, <3>3, <3>4, <3>5, <3>7
  <2>4. DeliveredWasAccepted'
    <3> SUFFICES ASSUME NEW o \in Ops, phase'[o] = "delivered"
                 PROVE  accepted'[PacketOf[o]] > 0
      BY DEF DeliveredWasAccepted
    <3>0. PacketOf[o] \in Packets
      OBVIOUS
    <3>1. CASE phase[o] = "delivered"
      BY <2>1, <3>0, <3>1 DEF DeliveredWasAccepted
    <3>2. CASE phase[o] # "delivered"
      <4>1. ~UNCHANGED phase
        BY <3>2
      <4>2. ASSUME NEW w \in Ops, CallStep(w) PROVE FALSE
        BY <3>2, <4>2 DEF CallStep
      <4>3. ASSUME NEW s \in Sockets, SenderCloses(s) PROVE FALSE
        BY <3>2, <4>3, ClosePhases DEF SenderCloses
      <4>4. PICK s \in Sockets : ReceiveAck(s)
        BY <4>1, <4>2, <4>3, PhaseChanges
      <4>5. PICK w \in Ops : PacketOf[w] = Head(acks[s]) /\ phase' = [phase EXCEPT ![w] = "delivered"]
        BY <4>1, <4>4, AckStep
      <4>6. w = o
        BY <3>2, <4>5 DEF TypeOK
      <4>7. acks[s] \in Seq(Packets) /\ acks[s] # <<>>
        BY <4>4 DEF TypeOK, ReceiveAck
      <4>8. accepted[Head(acks[s])] > 0
        <5>1. 1 \in 1 .. Len(acks[s]) /\ Head(acks[s]) = acks[s][1]
          BY <4>7
        <5> QED
          BY <5>1 DEF AcksAreTrue
      <4> QED
        BY <2>1, <3>0, <4>5, <4>6, <4>8
    <3> QED
      BY <3>1, <3>2
  <2> QED
    BY <2>3, <2>4
<1>3. QED
  BY <1>1, <1>2, TypeCorrect, AcceptsOnce, EntriesBelongToAttempts, PTL DEF Spec

-----------------------------------------------------------------------------
(***************************************************************************)
(* The ACK system implements its abstract specification: each step of it   *)
(* accepts a packet, forgets one, makes one call report, or is not seen.   *)
(***************************************************************************)
Outcomes == [o \in Ops |-> OutcomeOf(o)]

\* A change of phase that reports nothing leaves the outcome.
LEMMA QuietPhase ==
  ASSUME NEW o \in Ops,
         \/ phase'[o] = phase[o]
         \/ phase[o] \notin Returned /\ phase'[o] \notin Returned
  PROVE  OutcomeOf(o)' = OutcomeOf(o)
BY DEF OutcomeOf, Returned

LEMMA CallStepReports ==
  ASSUME TypeOK, NEW o \in Ops, CallStep(o)
  PROVE  \/ UNCHANGED Outcomes
         \/ /\ Outcomes[o] = "pending"
            /\ Outcomes' = [Outcomes EXCEPT ![o] = "unconfirmed"]
<1>1. ASSUME NEW w \in Ops, w # o PROVE OutcomeOf(w)' = OutcomeOf(w)
  BY <1>1, QuietPhase DEF CallStep, Returned
<1>2. OutcomeOf(o) = "pending"
  BY DEF CallStep, OutcomeOf, Returned
<1>3. OutcomeOf(o)' \in {"pending", "unconfirmed"}
  BY DEF CallStep, OutcomeOf
<1> QED
  BY <1>1, <1>2, <1>3 DEF Outcomes

THEOREM ImplementsAbstract == Spec => ImplementsAckedDelivery
<1> USE PacketDeliveryAssumption
<1>1. Init => Abstract!Init
  BY DEF Init, Abstract!Init, OutcomeOf, Returned
<1>2. /\ TypeOK /\ WaitingInRange /\ NoOrphanEntry /\ AcksAreTrue /\ [Next]_vars
      => [Abstract!Next]_(Abstract!vars)
  <2> SUFFICES ASSUME TypeOK, WaitingInRange, NoOrphanEntry, AcksAreTrue, [Next]_vars
               PROVE  Abstract!Next \/ UNCHANGED Abstract!vars
    OBVIOUS
  <2> USE DEF Abstract!Next, Abstract!vars
  <2>1. CASE UNCHANGED <<processed, accepted, expired>>
    <3>1. CASE UNCHANGED Outcomes
      BY <2>1, <3>1 DEF Outcomes
    <3>2. ASSUME NEW o \in Ops, CallStep(o) PROVE Abstract!Report(o) \/ UNCHANGED Outcomes
      BY <2>1, <3>2, CallStepReports DEF Abstract!Report, Outcomes
    <3>3. ASSUME NEW s \in Sockets, SenderCloses(s) PROVE UNCHANGED Outcomes
      <4>1. ASSUME NEW w \in Ops PROVE OutcomeOf(w)' = OutcomeOf(w)
        BY <3>3, ClosePhases, QuietPhase DEF SenderCloses, Returned
      <4> QED
        BY <4>1 DEF Outcomes
    <3>4. ASSUME NEW s \in Sockets, ReceiveAck(s)
          PROVE  (\E o \in Ops : Abstract!Report(o)) \/ UNCHANGED Outcomes
      <4>1. CASE UNCHANGED phase
        BY <4>1 DEF Outcomes, OutcomeOf
      <4>2. ASSUME NEW o \in Ops, phase[o] = "waiting", PacketOf[o] = Head(acks[s]),
                   phase' = [phase EXCEPT ![o] = "delivered"]
            PROVE  Abstract!Report(o)
        <5>1. acks[s] \in Seq(Packets) /\ acks[s] # <<>>
          BY <3>4 DEF TypeOK, ReceiveAck
        <5>2. 1 \in 1 .. Len(acks[s]) /\ Head(acks[s]) = acks[s][1]
          BY <5>1
        <5>3. accepted[PacketOf[o]] > 0
          BY <4>2, <5>2 DEF AcksAreTrue
        <5>4. ASSUME NEW w \in Ops, w # o PROVE OutcomeOf(w)' = OutcomeOf(w)
          BY <4>2, <5>4 DEF OutcomeOf, TypeOK
        <5>5. OutcomeOf(o) = "pending" /\ OutcomeOf(o)' = "delivered"
          BY <4>2 DEF OutcomeOf, Returned, TypeOK
        <5>6. Outcomes' = [Outcomes EXCEPT ![o] = "delivered"]
          BY <5>4, <5>5 DEF Outcomes
        <5> QED
          BY <2>1, <5>3, <5>5, <5>6 DEF Abstract!Report, Outcomes
      <4> QED
        BY <3>4, <4>1, <4>2, AckStep
    <3>5. CASE UNCHANGED phase
      BY <3>1, <3>5 DEF Outcomes, OutcomeOf
    <3> QED
      BY <3>1, <3>2, <3>3, <3>4, <3>5, PhaseChanges
  <2>2. ASSUME NEW s \in Sockets, NEW p \in Packets, Accept(s, p) PROVE Abstract!Next
    <3>1. UNCHANGED phase
      BY <2>2 DEF Accept, senderVars
    <3>2. UNCHANGED Outcomes
      BY <3>1 DEF Outcomes, OutcomeOf
    <3>3. Abstract!Accept(p)
      BY <2>2, <3>2 DEF Accept, Abstract!Accept, Outcomes
    <3> QED
      BY <3>3
  <2>3. ASSUME NEW p \in Packets, Expire(p) PROVE Abstract!Next
    <3>1. UNCHANGED phase
      BY <2>3 DEF Expire, senderVars
    <3>2. UNCHANGED Outcomes
      BY <3>1 DEF Outcomes, OutcomeOf
    <3>3. Abstract!Forget(p)
      BY <2>3, <3>2 DEF Expire, Abstract!Forget, Outcomes
    <3> QED
      BY <3>3
  <2> QED
    BY <2>1, <2>2, <2>3, MemoryChanges
<1>3. QED
  BY <1>1, <1>2, TypeCorrect, EntriesBelongToAttempts, DeliveryIsTrue, PTL
     DEF Spec, ImplementsAckedDelivery, Abstract!Spec

(***************************************************************************)
(* A call that fails leaves its socket closed, which is what starts the    *)
(* reconnect path, unless a ghost made on a closed socket keeps the router-*)
(* wide limit reached.  That closing the saturated socket makes room       *)
(* otherwise rests on three facts: an entry belongs to a wait or a ghost,  *)
(* a call only waits on an open socket, and the table is within its limit. *)
(***************************************************************************)
WaitsAreOpen == \A o \in Ops : Waiting(o) => sock[o] \in senderOpen

EntriesFit ==
  IsFiniteSet(AllPending) /\ Cardinality(AllPending) <= MaxTotalPendingAcks

\* A table below its limit has room for one more entry; fewer entries fit too.
LEMMA OneMoreFits ==
  ASSUME NEW S, NEW T, NEW p, IsFiniteSet(S), T \subseteq S \cup {p},
         Cardinality(S) < MaxTotalPendingAcks
  PROVE  IsFiniteSet(T) /\ Cardinality(T) <= MaxTotalPendingAcks
<1>1. /\ IsFiniteSet(S \cup {p}) /\ Cardinality(S) \in Nat
      /\ \/ Cardinality(S \cup {p}) = Cardinality(S)
         \/ Cardinality(S \cup {p}) = Cardinality(S) + 1
  BY FS_AddElement, FS_CardinalityType
<1>2. IsFiniteSet(T) /\ Cardinality(T) \in Nat /\ Cardinality(T) <= Cardinality(S \cup {p})
  BY <1>1, FS_Subset, FS_CardinalityType
<1> QED
  BY <1>1, <1>2, PacketDeliveryAssumption

LEMMA FewerFit ==
  ASSUME NEW S, NEW T, IsFiniteSet(S), T \subseteq S,
         Cardinality(S) <= MaxTotalPendingAcks
  PROVE  IsFiniteSet(T) /\ Cardinality(T) <= MaxTotalPendingAcks
<1>1. IsFiniteSet(T) /\ Cardinality(T) \in Nat /\ Cardinality(T) <= Cardinality(S)
  BY FS_Subset, FS_CardinalityType
<1>2. Cardinality(S) \in Nat
  BY FS_CardinalityType
<1> QED
  BY <1>1, <1>2, PacketDeliveryAssumption

\* Entries are added by the two actions that make an attempt, and only there.
LEMMA FitsStep ==
  ASSUME TypeOK, WaitingInRange, EntriesFit, [Next]_vars
  PROVE  EntriesFit'
<1> USE PacketDeliveryAssumption
<1>0. PacketOf \in [Ops -> Packets] /\ IsFiniteSet(AllPending)
  BY DEF EntriesFit
<1>1. ASSUME NEW C, pendingAcks' = Cleanup(C) PROVE EntriesFit'
  <2>1. AllPending' \subseteq AllPending
    BY <1>1 DEF AllPending, Cleanup
  <2> QED
    BY <2>1, FewerFit DEF EntriesFit
<1>2. CASE UNCHANGED pendingAcks
  BY <1>2 DEF EntriesFit, AllPending
<1>3. ASSUME NEW o \in Ops, Try(o) PROVE EntriesFit'
  <2>1. \E c : pendingAcks' = [pendingAcks EXCEPT ![PacketOf[o]] = c]
    BY <1>3 DEF Try, Attempt
  <2>2. AllPending' \subseteq AllPending \cup {PacketOf[o]}
    BY <2>1 DEF AllPending, TypeOK
  <2>3. Cardinality(AllPending) < MaxTotalPendingAcks
    BY <1>0, <1>3, FS_CardinalityType DEF Try, TotalFull
  <2> QED
    BY <1>0, <2>2, <2>3, OneMoreFits DEF EntriesFit
<1>4. ASSUME NEW o \in Ops, NEW s \in Sockets, TryTotalFull(o, s) PROVE EntriesFit'
  <2> DEFINE left == Cleanup(Listening(Saturated(s)))
             S == {p \in Packets : left[p] # NoEntry}
  <2>1. PICK c : pendingAcks' = [left EXCEPT ![PacketOf[o]] = c]
    BY <1>4 DEF TryTotalFull, Attempt
  <2>2. left \in [Packets -> Closures \cup {NoEntry}]
    BY CleanupType
  <2>3. AllPending' \subseteq S \cup {PacketOf[o]}
    <3> HIDE DEF left
    <3> QED
      BY <2>1, <2>2 DEF AllPending
  <2>4. S \subseteq AllPending
    BY DEF AllPending, Cleanup
  <2>5. IsFiniteSet(S)
    BY <1>0, <2>4, FS_Subset
  <2>6. Cardinality(S) < MaxTotalPendingAcks
    BY <1>4 DEF TryTotalFull, RoomIn
  <2>7. IsFiniteSet(AllPending') /\ Cardinality(AllPending') <= MaxTotalPendingAcks
    <3> HIDE DEF S
    <3> QED
      BY <2>3, <2>5, <2>6, OneMoreFits
  <2> QED
    BY <2>7 DEF EntriesFit
<1>5. ASSUME NEW o \in Ops, Begin(o) \/ TryClosed(o) \/ TrySocketFull(o) \/ GiveUp(o)
                              \/ Timeout(o) \/ Abort(o)
      PROVE  EntriesFit'
  BY <1>1, <1>2, <1>5 DEF Begin, TryClosed, TrySocketFull, GiveUp, CloseAnd, Timeout, Abort
<1>6. ASSUME NEW o \in Ops, NEW s \in Sockets, FailTotalFull(o, s) PROVE EntriesFit'
  BY <1>1, <1>6 DEF FailTotalFull, CloseAnd
<1>7. ASSUME NEW g \in Closures, GhostTimeout(g) PROVE EntriesFit'
  BY <1>1, <1>7 DEF GhostTimeout
<1>8. ASSUME NEW s \in Sockets, SenderCloses(s) PROVE EntriesFit'
  BY <1>1, <1>8 DEF SenderCloses
<1>9. ASSUME NEW s \in Sockets, ReceiveAck(s) PROVE EntriesFit'
  <2>1. pendingAcks' = pendingAcks \/ \E p : pendingAcks' = [pendingAcks EXCEPT ![p] = NoEntry]
    BY <1>9 DEF ReceiveAck
  <2>2. AllPending' \subseteq AllPending
    BY <2>1 DEF AllPending, TypeOK
  <2> QED
    BY <2>2, FewerFit DEF EntriesFit
<1>10. CASE UNCHANGED senderVars
  BY <1>2, <1>10 DEF senderVars
<1>11. ASSUME NEW s \in Sockets, Receive(s) \/ ReceiverCloses(s) \/ Lose(s)
       PROVE  UNCHANGED senderVars
  BY <1>11, ReceiverStep
<1>12. ASSUME NEW p \in Packets, Expire(p) PROVE UNCHANGED senderVars
  BY <1>12 DEF Expire
<1>13. ASSUME NEW c \in Clients, DropBucket(c) PROVE UNCHANGED senderVars
  BY <1>13 DEF DropBucket
<1>14. CASE UNCHANGED vars
  BY <1>10, <1>14 DEF vars
<1> QED
  BY <1>3, <1>4, <1>5, <1>6, <1>7, <1>8, <1>9, <1>10, <1>11, <1>12, <1>13, <1>14
     DEF Next, Step

\* A close takes the calls that wait on the socket out of their wait, and an
\* attempt only waits on a socket it found open.
LEMMA OpenStep ==
  ASSUME TypeOK, WaitingInRange, WaitsAreOpen, [Next]_vars
  PROVE  WaitsAreOpen'
<1> USE PacketDeliveryAssumption
<1>0. phase \in [Ops -> Phases]
  BY DEF TypeOK
<1>1. ASSUME NEW S, NEW o \in Ops, NEW r \in Phases,
             phase' = PhaseAfterClose(S) \/ phase' = [PhaseAfterClose(S) EXCEPT ![o] = r],
             r = "waiting" => sock[o] \in senderOpen \ S,
             senderOpen' = senderOpen \ S, sock' = sock
      PROVE  WaitsAreOpen'
  <2> SUFFICES ASSUME NEW w \in Ops, phase'[w] = "waiting" PROVE sock[w] \in senderOpen \ S
    BY <1>1 DEF WaitsAreOpen, Waiting
  <2>1. PhaseAfterClose(S) \in [Ops -> Phases]
    BY AfterCloseType
  <2>2. CASE w = o /\ phase'[o] = r
    BY <1>1, <2>2
  <2>3. CASE PhaseAfterClose(S)[w] = "waiting"
    BY <2>3, WaitingAfterClose DEF WaitsAreOpen
  <2> QED
    BY <1>1, <2>1, <2>2, <2>3
<1>2. ASSUME NEW o \in Ops, NEW r \in Phases, phase' = phase \/ phase' = [phase EXCEPT ![o] = r],
             r = "waiting" => sock[o] \in senderOpen,
             UNCHANGED <<senderOpen, sock>>
      PROVE  WaitsAreOpen'
  BY <1>0, <1>2 DEF WaitsAreOpen, Waiting
<1>3. ASSUME NEW o \in Ops, Begin(o) \/ TryClosed(o) \/ Timeout(o) \/ Abort(o) PROVE WaitsAreOpen'
  <2>1. /\ \/ phase' = phase
           \/ phase' = [phase EXCEPT ![o] = "trying"]
           \/ phase' = [phase EXCEPT ![o] = "failed"]
           \/ phase' = [phase EXCEPT ![o] = "cancelled"]
        /\ UNCHANGED <<senderOpen, sock>>
    BY <1>3 DEF Begin, TryClosed, Timeout, Abort
  <2>2. {"trying", "failed", "cancelled"} \subseteq Phases
    BY DEF Phases, Returned
  <2> QED
    BY <1>2, <2>1, <2>2
<1>4. ASSUME NEW o \in Ops, Try(o) PROVE WaitsAreOpen'
  <2>1. \E r \in Phases : phase' = [phase EXCEPT ![o] = r]
    BY <1>4 DEF Try, Attempt, Phases, Returned
  <2>2. sock[o] \in senderOpen /\ UNCHANGED <<senderOpen, sock>>
    BY <1>4 DEF Try, Ready
  <2> QED
    BY <1>2, <2>1, <2>2
<1>5. ASSUME NEW o \in Ops, NEW S, CloseAnd(S, o, "failed"), sock' = sock PROVE WaitsAreOpen'
  <2>1. "failed" \in Phases
    BY DEF Phases, Returned
  <2> QED
    BY <1>1, <1>5, <2>1 DEF CloseAnd
<1>6. ASSUME NEW o \in Ops, TrySocketFull(o) \/ GiveUp(o) PROVE WaitsAreOpen'
  BY <1>5, <1>6 DEF TrySocketFull, GiveUp
<1>7. ASSUME NEW o \in Ops, NEW s \in Sockets, FailTotalFull(o, s) PROVE WaitsAreOpen'
  BY <1>5, <1>7 DEF FailTotalFull
<1>8. ASSUME NEW o \in Ops, NEW s \in Sockets, TryTotalFull(o, s) PROVE WaitsAreOpen'
  <2>1. \E r \in Phases : /\ phase' = [PhaseAfterClose(Saturated(s)) EXCEPT ![o] = r]
                          /\ r = "waiting" => sock[o] \in senderOpen \ Saturated(s)
    BY <1>8 DEF TryTotalFull, Attempt, Phases, Returned
  <2>2. senderOpen' = senderOpen \ Saturated(s) /\ sock' = sock
    BY <1>8 DEF TryTotalFull
  <2> QED
    BY <1>1, <2>1, <2>2
<1>9. ASSUME NEW s \in Sockets, SenderCloses(s) PROVE WaitsAreOpen'
  <2>1. /\ phase' = PhaseAfterClose({s})
        /\ senderOpen' = senderOpen \ {s} /\ sock' = sock
    BY <1>9 DEF SenderCloses
  <2> SUFFICES ASSUME NEW w \in Ops, phase'[w] = "waiting" PROVE sock[w] \in senderOpen \ {s}
    BY <2>1 DEF WaitsAreOpen, Waiting
  <2> QED
    BY <2>1, WaitingAfterClose DEF WaitsAreOpen
<1>10. ASSUME NEW s \in Sockets, ReceiveAck(s) PROVE WaitsAreOpen'
  <2>1. UNCHANGED <<senderOpen, sock>>
    BY <1>10 DEF ReceiveAck
  <2>2. phase' = phase \/ \E c : phase' = [phase EXCEPT ![c] = IF pendingAcks[Head(acks[s])] \in ghosts
                                                               THEN @ ELSE "delivered"]
    BY <1>10 DEF ReceiveAck
  <2> QED
    BY <1>0, <2>1, <2>2 DEF WaitsAreOpen, Waiting
<1>11. ASSUME UNCHANGED <<phase, sock, senderOpen>> PROVE WaitsAreOpen'
  BY <1>11 DEF WaitsAreOpen, Waiting
<1>12. ASSUME NEW g \in Closures, GhostTimeout(g) PROVE WaitsAreOpen'
  BY <1>11, <1>12 DEF GhostTimeout
<1>13. ASSUME NEW s \in Sockets, Receive(s) \/ ReceiverCloses(s) \/ Lose(s) PROVE WaitsAreOpen'
  BY <1>11, <1>13, ReceiverStep DEF senderVars
<1>14. ASSUME NEW p \in Packets, Expire(p) PROVE WaitsAreOpen'
  BY <1>11, <1>14 DEF Expire, senderVars
<1>15. ASSUME NEW c \in Clients, DropBucket(c) PROVE WaitsAreOpen'
  BY <1>11, <1>15 DEF DropBucket, senderVars
<1>16. CASE UNCHANGED vars
  BY <1>11, <1>16 DEF vars, senderVars
<1> QED
  BY <1>3, <1>4, <1>6, <1>7, <1>8, <1>9, <1>10, <1>12, <1>13, <1>14, <1>15, <1>16
     DEF Next, Step

\* The entry of an open saturated socket is cleaned up by the close; that of a
\* closed one is a late ghost's.
LEMMA NoRoomMeansLateGhost ==
  ASSUME TypeOK, NoOrphanEntry, WaitsAreOpen, EntriesFit, MaxTotalPendingAcks > 0,
         NEW o \in Ops, NEW s \in Sockets, FailTotalFull(o, s)
  PROVE  \E g \in Closures : LateGhost(g)
<1> USE PacketDeliveryAssumption
<1>1. /\ TotalFull
      /\ \A t \in Sockets : Cardinality(Pending(t)) <= Cardinality(Pending(s))
      /\ ~RoomIn(Cleanup(Listening(Saturated(s))))
  BY DEF FailTotalFull, AtTotalLimit
<1>2. \A t \in Sockets : IsFiniteSet(Pending(t)) /\ Cardinality(Pending(t)) \in Nat
  <2> SUFFICES ASSUME NEW t \in Sockets PROVE IsFiniteSet(Pending(t))
    BY FS_CardinalityType
  <2>1. Pending(t) \subseteq AllPending
    BY DEF Pending, AllPending
  <2> QED
    BY <2>1, FS_Subset DEF EntriesFit
<1>3. Pending(s) # {}
  <2>1. AllPending # {}
    <3>1. Cardinality(AllPending) >= MaxTotalPendingAcks
      BY <1>1 DEF TotalFull
    <3>2. Cardinality(AllPending) # 0
      BY <3>1
    <3> QED
      BY <3>2, FS_EmptySet
  <2>2. PICK p \in Packets : pendingAcks[p] # NoEntry
    BY <2>1 DEF AllPending
  <2>3. pendingAcks[p] \in Closures
    BY <2>2 DEF TypeOK
  <2>4. pendingAcks[p][1] \in Ops
    BY <2>3 DEF Closures
  <2>5. sock[pendingAcks[p][1]] \in Sockets
    BY <2>4 DEF TypeOK
  <2>6. Pending(sock[pendingAcks[p][1]]) # {}
    BY <2>2 DEF Pending
  <2>7. Cardinality(Pending(sock[pendingAcks[p][1]])) # 0
    BY <1>2, <2>5, <2>6, FS_EmptySet
  <2>8. Cardinality(Pending(s)) # 0
    BY <1>1, <1>2, <2>5, <2>7
  <2> QED
    BY <2>8, FS_EmptySet
<1>4. PICK p \in Pending(s) : TRUE
  BY <1>3
<1> DEFINE c == pendingAcks[p]
<1>5. p \in Packets /\ c # NoEntry /\ c \in Closures /\ c[1] \in Ops /\ sock[c[1]] = s
  <2>1. p \in Packets /\ c # NoEntry /\ sock[c[1]] = s
    BY <1>4 DEF Pending
  <2>2. c \in Closures
    BY <2>1 DEF TypeOK
  <2> QED
    BY <2>1, <2>2 DEF Closures
<1>6. PacketOf[c[1]] = p /\ (c \in ghosts \/ (Waiting(c[1]) /\ attempt[c[1]] = c[2]))
  BY <1>5 DEF NoOrphanEntry
<1>7. s \notin senderOpen
  <2> SUFFICES ASSUME s \in senderOpen PROVE FALSE
    OBVIOUS
  <2> DEFINE left == Cleanup(Listening(Saturated(s)))
             T == {q \in Packets : left[q] # NoEntry}
  <2>1. s \in Saturated(s)
    BY <1>3 DEF Saturated
  <2>2. c \in Listening(Saturated(s))
    <3>1. CASE c \in ghosts
      BY <1>5, <2>1, <3>1 DEF Listening
    <3>2. CASE Waiting(c[1]) /\ attempt[c[1]] = c[2]
      <4>1. c = Closure(c[1])
        BY <1>5, <3>2 DEF Closure, Closures
      <4> QED
        BY <1>5, <2>1, <3>2, <4>1 DEF Listening
    <3> QED
      BY <1>6, <3>1, <3>2
  <2>3. T \subseteq AllPending \ {p}
    BY <1>6, <2>2 DEF Cleanup, AllPending
  <2>4. /\ IsFiniteSet(AllPending) /\ Cardinality(AllPending) \in Nat
        /\ Cardinality(AllPending) <= MaxTotalPendingAcks
    BY FS_CardinalityType DEF EntriesFit
  <2>5. p \in AllPending
    BY <1>5 DEF AllPending
  <2>6. /\ IsFiniteSet(AllPending \ {p})
        /\ Cardinality(AllPending \ {p}) = Cardinality(AllPending) - 1
    BY <2>4, <2>5, FS_RemoveElement
  <2>7. /\ Cardinality(T) <= Cardinality(AllPending \ {p})
        /\ Cardinality(T) \in Nat
    BY <2>3, <2>6, FS_Subset, FS_CardinalityType
  <2>8. Cardinality(T) < MaxTotalPendingAcks
    BY <2>4, <2>6, <2>7
  <2> QED
    BY <1>1, <2>8 DEF RoomIn
<1>8. c \in ghosts
  BY <1>5, <1>6, <1>7 DEF WaitsAreOpen
<1> QED
  BY <1>5, <1>6, <1>7, <1>8 DEF LateGhost

THEOREM FailuresCloseSockets == Spec => FailureClosesSocket
<1> USE PacketDeliveryAssumption
<1>1. Init => WaitsAreOpen /\ EntriesFit
  <2> SUFFICES ASSUME Init PROVE WaitsAreOpen /\ EntriesFit
    OBVIOUS
  <2>1. WaitsAreOpen
    BY DEF Init, WaitsAreOpen, Waiting
  <2>2. AllPending = {}
    BY DEF Init, AllPending
  <2> QED
    BY <2>1, <2>2, FS_EmptySet DEF EntriesFit
<1>2. TypeOK /\ WaitingInRange /\ WaitsAreOpen /\ EntriesFit /\ [Next]_vars
        => WaitsAreOpen' /\ EntriesFit'
  BY OpenStep, FitsStep
<1>3. TypeOK /\ WaitingInRange /\ NoOrphanEntry /\ WaitsAreOpen /\ EntriesFit /\ [Next]_vars
        => [\A o \in Ops :
              /\ phase[o] # "failed" /\ phase'[o] = "failed"
              /\ MaxTotalPendingAcks > 0
              /\ ~\E g \in Closures : LateGhost(g)
              => sock'[o] \notin senderOpen']_vars
  <2> SUFFICES ASSUME TypeOK, WaitingInRange, NoOrphanEntry, WaitsAreOpen, EntriesFit, Next,
                      NEW w \in Ops, phase[w] # "failed", phase'[w] = "failed",
                      MaxTotalPendingAcks > 0,
                      ~\E g \in Closures : LateGhost(g)
               PROVE  sock'[w] \notin senderOpen'
    BY DEF vars, senderVars
  <2>0. phase \in [Ops -> Phases]
    BY DEF TypeOK
  <2>1. ASSUME NEW o \in Ops, TryClosed(o) PROVE sock'[w] \notin senderOpen'
    BY <2>0, <2>1 DEF TryClosed
  <2>2. ASSUME NEW o \in Ops, TrySocketFull(o) \/ GiveUp(o) PROVE sock'[w] \notin senderOpen'
    <3>1. PICK S : /\ S = {sock[o]} \cap senderOpen
                   /\ phase' = [PhaseAfterClose(S) EXCEPT ![o] = "failed"]
                   /\ senderOpen' = senderOpen \ S
                   /\ sock' = sock
      BY <2>2 DEF TrySocketFull, GiveUp, CloseAnd
    <3>2. PhaseAfterClose(S) \in [Ops -> Phases] /\ PhaseAfterClose(S)[w] # "failed"
      BY ClosePhases, AfterCloseType
    <3>3. w = o
      BY <3>1, <3>2
    <3> QED
      BY <3>1, <3>3
  <2>3. ASSUME NEW o \in Ops, Begin(o) \/ Try(o) \/ Timeout(o) \/ Abort(o) PROVE FALSE
    BY <2>0, <2>3 DEF Begin, Try, Attempt, Timeout, Abort
  <2>4. ASSUME NEW o \in Ops, NEW s \in Sockets, TryTotalFull(o, s) PROVE FALSE
    <3>1. \E r \in {"waiting", "refused", "cancelled"} :
            phase' = [PhaseAfterClose(Saturated(s)) EXCEPT ![o] = r]
      BY <2>4 DEF TryTotalFull, Attempt
    <3>2. /\ PhaseAfterClose(Saturated(s)) \in [Ops -> Phases]
          /\ PhaseAfterClose(Saturated(s))[w] # "failed"
      BY ClosePhases, AfterCloseType
    <3> QED
      BY <3>1, <3>2
  <2>5. ASSUME NEW o \in Ops, NEW s \in Sockets, FailTotalFull(o, s) PROVE FALSE
    BY <2>5, NoRoomMeansLateGhost
  <2>6. ASSUME NEW s \in Sockets, ReceiveAck(s) PROVE FALSE
    BY <2>0, <2>6 DEF ReceiveAck
  <2>7. ASSUME NEW s \in Sockets, SenderCloses(s) PROVE FALSE
    BY <2>7, ClosePhases DEF SenderCloses
  <2>8. ASSUME UNCHANGED phase PROVE FALSE
    BY <2>8
  <2>9. ASSUME NEW s \in Sockets, Receive(s) \/ ReceiverCloses(s) \/ Lose(s) PROVE UNCHANGED phase
    BY <2>9, ReceiverStep DEF senderVars
  <2>10. ASSUME NEW g \in Closures, GhostTimeout(g) PROVE UNCHANGED phase
    BY <2>10 DEF GhostTimeout
  <2>11. ASSUME NEW p \in Packets, Expire(p) PROVE UNCHANGED phase
    BY <2>11 DEF Expire, senderVars
  <2>12. ASSUME NEW c \in Clients, DropBucket(c) PROVE UNCHANGED phase
    BY <2>12 DEF DropBucket, senderVars
  <2> QED
    BY <2>1, <2>2, <2>3, <2>4, <2>5, <2>6, <2>7, <2>8, <2>9, <2>10, <2>11, <2>12
       DEF Next, Step
<1> QED
  BY <1>1, <1>2, <1>3, TypeCorrect, EntriesBelongToAttempts, PTL DEF Spec, FailureClosesSocket

-----------------------------------------------------------------------------
(***************************************************************************)
(* A network that answers in time.  Calls of one packet overwrite each     *)
(* other's entry, so an ACK may settle another call than the one whose     *)
(* copy it answers.  But an attempt that runs out unanswered has seen an   *)
(* ACK settle one of the others, so no call needs more attempts than there *)
(* are calls of its packet.                                                *)
(***************************************************************************)
CallsOf(p) == {o \in Ops : PacketOf[o] = p}
DeliveredCalls(p) == {o \in CallsOf(p) : phase[o] = "delivered"}

\* No limit is reached: there is room for every packet at both ends, and for
\* an attempt of a call for each call of its packet.
RoomForAll ==
  /\ IsFiniteSet(Ops) /\ IsFiniteSet(Packets) /\ IsFiniteSet(Clients)
  /\ Cardinality(Packets) < MaxPendingAcks
  /\ Cardinality(Packets) < MaxTotalPendingAcks
  /\ Cardinality(Packets) <= MaxProcessedPackets
  /\ Cardinality(Packets) <= MaxTotalProcessedPackets
  /\ Cardinality(Clients) <= MaxProcessedPacketClients
  /\ \A p \in Packets : Cardinality(CallsOf(p)) <= MaxAttempts

\* The calls of a packet were given the same socket.
OneSocketEach == \A o, w \in Ops : PacketOf[o] = PacketOf[w] => sock[o] = sock[w]

NothingFails ==
  /\ senderOpen = Sockets /\ receiverOpen = Sockets
  /\ aborted = {} /\ ghosts = {}

\* While there is an entry, an ACK that will settle its call is to come.
EntryIsAnswered ==
  \A p \in Packets : pendingAcks[p] # NoEntry =>
    LET s == sock[pendingAcks[p][1]] IN Holds(wire[s], p) \/ Holds(acks[s], p)

\* Every attempt but the current one was lost to a call that was delivered, and
\* so was the current one when the packet has no entry any more.
AttemptsAreCounted ==
  \A o \in Ops :
    LET lost == Cardinality(DeliveredCalls(PacketOf[o]))
    IN /\ phase[o] \in {"idle", "trying"} => attempt[o] <= lost + 1
       /\ Waiting(o) => \/ attempt[o] <= lost
                        \/ attempt[o] <= lost + 1 /\ pendingAcks[PacketOf[o]] # NoEntry

PromptInv == NothingFails /\ OneSocketEach /\ EntryIsAnswered /\ AttemptsAreCounted

LEMMA TablesHaveRoom ==
  ASSUME RoomForAll, NEW s
  PROVE  ~SocketFull(s) /\ ~TotalFull
<1> USE PacketDeliveryAssumption
<1>1. Pending(s) \in SUBSET Packets /\ AllPending \in SUBSET Packets
  BY DEF Pending, AllPending
<1>2. /\ Cardinality(Packets) \in Nat
      /\ Cardinality(Pending(s)) \in Nat /\ Cardinality(Pending(s)) <= Cardinality(Packets)
      /\ Cardinality(AllPending) \in Nat /\ Cardinality(AllPending) <= Cardinality(Packets)
  BY <1>1, FS_Subset, FS_CardinalityType DEF RoomForAll
<1> QED
  BY <1>2 DEF RoomForAll, SocketFull, TotalFull

LEMMA MemoryHasRoom ==
  ASSUME RoomForAll, TypeOK, NEW p \in Packets, p \notin processed
  PROVE  ~NoRoom(p)
<1> USE PacketDeliveryAssumption
<1>1. /\ IsFiniteSet(Packets \ {p})
      /\ Cardinality(Packets) \in Nat
      /\ Cardinality(Packets \ {p}) = Cardinality(Packets) - 1
  BY FS_RemoveElement, FS_CardinalityType DEF RoomForAll
<1>2. processed \in SUBSET (Packets \ {p}) /\ ProcessedOf(Owner[p]) \in SUBSET (Packets \ {p})
  BY DEF TypeOK, ProcessedOf
<1>3. /\ Cardinality(processed) \in Nat /\ Cardinality(processed) < Cardinality(Packets)
      /\ Cardinality(ProcessedOf(Owner[p])) \in Nat
      /\ Cardinality(ProcessedOf(Owner[p])) < Cardinality(Packets)
  BY <1>1, <1>2, FS_Subset, FS_CardinalityType
<1>4. ASSUME Owner[p] \notin buckets
      PROVE  Cardinality(buckets) \in Nat /\ Cardinality(buckets) < Cardinality(Clients)
  <2>1. /\ IsFiniteSet(Clients \ {Owner[p]}) /\ Cardinality(Clients) \in Nat
        /\ Cardinality(Clients \ {Owner[p]}) = Cardinality(Clients) - 1
    BY FS_RemoveElement, FS_CardinalityType DEF RoomForAll
  <2>2. buckets \in SUBSET (Clients \ {Owner[p]})
    BY <1>4 DEF TypeOK
  <2> QED
    BY <2>1, <2>2, FS_Subset, FS_CardinalityType
<1>5. Cardinality(Clients) \in Nat
  BY FS_CardinalityType DEF RoomForAll
<1> QED
  BY <1>1, <1>3, <1>4, <1>5 DEF RoomForAll, NoRoom

LEMMA DeliveredAreFinite ==
  ASSUME RoomForAll, NEW p
  PROVE  /\ IsFiniteSet(CallsOf(p)) /\ Cardinality(CallsOf(p)) \in Nat
         /\ IsFiniteSet(DeliveredCalls(p)) /\ Cardinality(DeliveredCalls(p)) \in Nat
<1>1. CallsOf(p) \in SUBSET Ops /\ DeliveredCalls(p) \in SUBSET Ops
  BY DEF CallsOf, DeliveredCalls
<1> QED
  BY <1>1, FS_Subset, FS_CardinalityType DEF RoomForAll

\* A call that is not delivered is not counted among those that are.
LEMMA AttemptsSuffice ==
  ASSUME RoomForAll, TypeOK, AttemptsAreCounted, NEW o \in Ops, phase[o] = "trying"
  PROVE  attempt[o] <= MaxAttempts
<1> USE PacketDeliveryAssumption
<1> DEFINE p == PacketOf[o]
<1>1. /\ p \in Packets /\ attempt[o] \in Nat /\ MaxAttempts \in Nat
      /\ attempt[o] <= Cardinality(DeliveredCalls(p)) + 1
  BY DEF TypeOK, AttemptsAreCounted
<1>2. /\ IsFiniteSet(CallsOf(p) \ {o})
      /\ Cardinality(CallsOf(p) \ {o}) = Cardinality(CallsOf(p)) - 1
  <2>1. IsFiniteSet(CallsOf(p)) /\ o \in CallsOf(p)
    BY <1>1, DeliveredAreFinite DEF CallsOf
  <2> QED
    BY <2>1, FS_RemoveElement
<1>3. DeliveredCalls(p) \in SUBSET (CallsOf(p) \ {o})
  BY DEF DeliveredCalls
<1>4. Cardinality(DeliveredCalls(p)) <= Cardinality(CallsOf(p)) - 1
  BY <1>2, <1>3, FS_Subset
<1> QED
  BY <1>1, <1>4, DeliveredAreFinite DEF RoomForAll

\* What a queue holds as it moves.
LEMMA HoldsMore ==
  ASSUME NEW q \in Seq(Packets), NEW x \in Packets, NEW p
  PROVE  /\ Holds(Append(q, x), x)
         /\ Holds(q, p) => Holds(Append(q, x), p)
<1>1. /\ Len(q) \in Nat /\ DOMAIN q = 1 .. Len(q)
      /\ DOMAIN Append(q, x) = 1 .. Len(q) + 1
      /\ Append(q, x)[Len(q) + 1] = x
      /\ \A i \in 1 .. Len(q) : Append(q, x)[i] = q[i]
  OBVIOUS
<1> QED
  BY <1>1 DEF Holds

LEMMA HoldsStill ==
  ASSUME NEW q \in Seq(Packets), q # <<>>, NEW p, Holds(q, p), p # Head(q)
  PROVE  Holds(Tail(q), p)
<1>1. /\ Len(q) \in Nat /\ DOMAIN q = 1 .. Len(q) /\ Head(q) = q[1]
      /\ DOMAIN Tail(q) = 1 .. Len(q) - 1
      /\ \A i \in 1 .. Len(q) - 1 : Tail(q)[i] = q[i + 1]
  OBVIOUS
<1>2. PICK i \in 1 .. Len(q) : q[i] = p
  BY <1>1 DEF Holds
<1>3. i - 1 \in 1 .. Len(q) - 1 /\ Tail(q)[i - 1] = p
  BY <1>1, <1>2
<1> QED
  BY <1>1, <1>3 DEF Holds

\* A step that delivers nothing and leaves the other calls alone.
LEMMA CountsStay ==
  ASSUME RoomForAll, TypeOK, AttemptsAreCounted, NEW o \in Ops, phase[o] # "delivered",
         NEW r \in Phases \ {"delivered"}, phase' = [phase EXCEPT ![o] = r],
         \A w \in Ops \ {o} : attempt'[w] = attempt[w],
         \A p \in Packets : pendingAcks[p] # NoEntry => pendingAcks'[p] # NoEntry,
         LET lost == Cardinality(DeliveredCalls(PacketOf[o]))
         IN /\ r \in {"idle", "trying"} => attempt'[o] <= lost + 1
            /\ r = "waiting" => attempt'[o] <= lost + 1 /\ pendingAcks'[PacketOf[o]] # NoEntry
  PROVE  AttemptsAreCounted'
<1> USE PacketDeliveryAssumption
<1>1. \A p : DeliveredCalls(p)' = DeliveredCalls(p)
  BY DEF TypeOK, DeliveredCalls, CallsOf
<1>2. /\ phase'[o] = r
      /\ \A w \in Ops \ {o} : phase'[w] = phase[w]
  BY DEF TypeOK
<1>3. SUFFICES ASSUME NEW w \in Ops
      PROVE  LET lost == Cardinality(DeliveredCalls(PacketOf[w]))
             IN /\ phase'[w] \in {"idle", "trying"} => attempt'[w] <= lost + 1
                /\ phase'[w] = "waiting" =>
                     \/ attempt'[w] <= lost
                     \/ attempt'[w] <= lost + 1 /\ pendingAcks'[PacketOf[w]] # NoEntry
  BY <1>1 DEF AttemptsAreCounted, Waiting
<1>4. CASE w = o
  BY <1>2, <1>4
<1>5. CASE w # o
  BY <1>2, <1>5 DEF AttemptsAreCounted, Waiting
<1> QED
  BY <1>4, <1>5

\* The calls and entries stay, and packets move as the entries need it.
LEMMA EntriesStayAnswered ==
  ASSUME TypeOK, EntryIsAnswered, UNCHANGED <<sock, pendingAcks>>,
         \A s \in Sockets, p \in Packets :
           Holds(wire[s], p) \/ Holds(acks[s], p) => Holds(wire'[s], p) \/ Holds(acks'[s], p)
  PROVE  EntryIsAnswered'
<1>1. \A p \in Packets : pendingAcks[p] # NoEntry => sock[pendingAcks[p][1]] \in Sockets
  BY DEF TypeOK, Closures
<1> QED
  BY <1>1 DEF EntryIsAnswered

LEMMA CountsOfCalls ==
  ASSUME AttemptsAreCounted, UNCHANGED <<phase, attempt, pendingAcks>>
  PROVE  AttemptsAreCounted'
<1>1. \A p : DeliveredCalls(p)' = DeliveredCalls(p)
  BY DEF DeliveredCalls, CallsOf
<1> QED
  BY <1>1 DEF AttemptsAreCounted, Waiting

\* An attempt is made: its copy is on the way.
LEMMA TryPrompt ==
  ASSUME RoomForAll, ~Faulty, TypeOK, PromptInv, NEW o \in Ops, Try(o)
  PROVE  PromptInv'
<1> USE PacketDeliveryAssumption
<1> DEFINE p == PacketOf[o]
           s == sock[o]
<1>1. /\ phase[o] = "trying" /\ attempt[o] <= MaxAttempts /\ p \in Packets /\ s \in Sockets
      /\ UNCHANGED <<sock, attempt, aborted, senderOpen, receiverOpen, acks>>
      /\ pendingAcks' = [pendingAcks EXCEPT ![p] = Closure(o)]
      /\ phase' = [phase EXCEPT ![o] = "waiting"]
      /\ ghosts' = ghosts
      /\ wire' = [wire EXCEPT ![s] = Append(wire[s], p)]
  BY DEF Try, Ready, Attempt, PromptInv, NothingFails, receiverVars, TypeOK
<1>2. pendingAcks'[p] = Closure(o) /\ \A q \in Packets \ {p} : pendingAcks'[q] = pendingAcks[q]
  BY <1>1 DEF TypeOK
<1>3. Closure(o) \in Closures /\ Closure(o) # NoEntry /\ Closure(o)[1] = o
  BY <1>1, AttemptTypes DEF Closure
<1>4. NothingFails' /\ OneSocketEach'
  BY <1>1 DEF PromptInv, NothingFails, OneSocketEach
<1>5. \A t \in Sockets, q \in Packets : Holds(wire[t], q) => Holds(wire'[t], q)
  BY <1>1, HoldsMore DEF TypeOK
<1>6. Holds(wire'[s], p)
  BY <1>1, HoldsMore DEF TypeOK
<1>7. EntryIsAnswered'
  <2> SUFFICES ASSUME NEW q \in Packets, pendingAcks'[q] # NoEntry
               PROVE  LET t == sock[pendingAcks'[q][1]] IN Holds(wire'[t], q) \/ Holds(acks[t], q)
    BY <1>1 DEF EntryIsAnswered
  <2>1. CASE q = p
    BY <1>2, <1>3, <1>6, <2>1
  <2>2. CASE q # p
    <3>1. pendingAcks'[q] = pendingAcks[q] /\ sock[pendingAcks[q][1]] \in Sockets
      BY <1>2, <2>2 DEF TypeOK, Closures
    <3> QED
      BY <1>5, <3>1 DEF PromptInv, EntryIsAnswered
  <2> QED
    BY <2>1, <2>2
<1>8. AttemptsAreCounted'
  <2>1. attempt[o] <= Cardinality(DeliveredCalls(p)) + 1
    BY <1>1 DEF PromptInv, AttemptsAreCounted
  <2>2. \A q \in Packets : pendingAcks[q] # NoEntry => pendingAcks'[q] # NoEntry
    BY <1>2, <1>3
  <2> QED
    BY <1>1, <1>2, <1>3, <2>1, <2>2, CountsStay DEF PromptInv, Phases
<1> QED
  BY <1>4, <1>7, <1>8 DEF PromptInv

\* A timer that runs out finds no entry of its packet: every copy is answered.
LEMMA TimeoutPrompt ==
  ASSUME RoomForAll, Prompt, TypeOK, NoOrphanEntry, PromptInv, NEW o \in Ops, Timeout(o)
  PROVE  PromptInv'
<1> USE PacketDeliveryAssumption
<1> DEFINE p == PacketOf[o]
<1>1. /\ Waiting(o) /\ p \in Packets
      /\ ~Holds(wire[sock[o]], p) /\ ~Holds(acks[sock[o]], p)
      /\ UNCHANGED <<sock, aborted, ghosts, senderOpen, receiverOpen, wire, acks>>
      /\ phase' = [phase EXCEPT ![o] = "trying"]
      /\ attempt' = [attempt EXCEPT ![o] = attempt[o] + 1]
  BY DEF Timeout, Unanswered, receiverVars
<1>2. pendingAcks[p] = NoEntry
  <2> SUFFICES ASSUME pendingAcks[p] # NoEntry PROVE FALSE
    OBVIOUS
  <2>1. pendingAcks[p][1] \in Ops /\ PacketOf[pendingAcks[p][1]] = p
    BY <1>1 DEF TypeOK, Closures, NoOrphanEntry
  <2>2. sock[pendingAcks[p][1]] = sock[o]
    BY <2>1 DEF PromptInv, OneSocketEach
  <2> QED
    BY <1>1, <2>2 DEF PromptInv, EntryIsAnswered
<1>3. pendingAcks' = pendingAcks
  <2>1. pendingAcks' = [q \in Packets |-> IF q = p THEN NoEntry ELSE pendingAcks[q]]
    BY DEF Timeout, Cleanup, Closure
  <2> QED
    BY <1>2, <2>1 DEF TypeOK
<1>4. NothingFails' /\ OneSocketEach'
  BY <1>1 DEF PromptInv, NothingFails, OneSocketEach
<1>5. EntryIsAnswered'
  BY <1>1, <1>3, EntriesStayAnswered DEF PromptInv
<1>6. AttemptsAreCounted'
  <2>1. /\ attempt[o] \in Nat /\ attempt'[o] = attempt[o] + 1
        /\ \A w \in Ops \ {o} : attempt'[w] = attempt[w]
    BY <1>1 DEF TypeOK
  <2>2. attempt[o] <= Cardinality(DeliveredCalls(p))
    BY <1>1, <1>2 DEF PromptInv, AttemptsAreCounted
  <2>3. attempt'[o] <= Cardinality(DeliveredCalls(p)) + 1
    BY <2>1, <2>2, DeliveredAreFinite
  <2> QED
    BY <1>1, <1>3, <2>1, <2>3, CountsStay DEF PromptInv, Phases, Waiting
<1> QED
  BY <1>4, <1>5, <1>6 DEF PromptInv

\* A call that is delivered is one more of the calls of its packet that are.
LEMMA OneMoreDelivered ==
  ASSUME RoomForAll, NEW o \in Ops,
         phase[o] # "delivered", phase'[o] = "delivered",
         \A w \in Ops \ {o} : phase'[w] = phase[w]
  PROVE  LET more == DeliveredCalls(PacketOf[o]) \cup {o}
         IN /\ \A q : DeliveredCalls(q)' = IF q = PacketOf[o] THEN more ELSE DeliveredCalls(q)
            /\ Cardinality(more) = Cardinality(DeliveredCalls(PacketOf[o])) + 1
<1>1. o \notin DeliveredCalls(PacketOf[o])
  BY DEF DeliveredCalls
<1>2. ASSUME NEW q
      PROVE  DeliveredCalls(q)' = IF q = PacketOf[o] THEN DeliveredCalls(q) \cup {o} ELSE DeliveredCalls(q)
  BY DEF DeliveredCalls, CallsOf
<1>3. Cardinality(DeliveredCalls(PacketOf[o]) \cup {o}) = Cardinality(DeliveredCalls(PacketOf[o])) + 1
  BY <1>1, DeliveredAreFinite, FS_AddElement
<1> QED
  BY <1>2, <1>3

\* An ACK settles the call that has the entry: one more is delivered.
LEMMA AckPrompt ==
  ASSUME RoomForAll, TypeOK, NoOrphanEntry, PromptInv, NEW s \in Sockets, ReceiveAck(s)
  PROVE  PromptInv'
<1> USE PacketDeliveryAssumption
<1> DEFINE p == Head(acks[s])
           c == pendingAcks[p]
<1>1. /\ acks[s] # <<>> /\ p \in Packets
      /\ acks' = [acks EXCEPT ![s] = Tail(acks[s])]
      /\ UNCHANGED <<sock, attempt, aborted, senderOpen, receiverOpen, wire>>
  BY DEF ReceiveAck, receiverVars, TypeOK
<1>2. \/ c = NoEntry /\ UNCHANGED <<pendingAcks, phase, ghosts>>
      \/ /\ c # NoEntry
         /\ pendingAcks' = [pendingAcks EXCEPT ![p] = NoEntry]
         /\ ghosts' = {}
         /\ phase' = [phase EXCEPT ![c[1]] = "delivered"]
  BY DEF ReceiveAck, PromptInv, NothingFails
<1>3. NothingFails' /\ OneSocketEach'
  BY <1>1, <1>2 DEF PromptInv, NothingFails, OneSocketEach
<1>4. /\ pendingAcks'[p] = NoEntry
      /\ \A q \in Packets \ {p} : pendingAcks'[q] = pendingAcks[q]
  BY <1>1, <1>2 DEF TypeOK
<1>5. EntryIsAnswered'
  <2> SUFFICES ASSUME NEW q \in Packets, pendingAcks'[q] # NoEntry
               PROVE  LET t == sock[pendingAcks'[q][1]] IN Holds(wire[t], q) \/ Holds(acks'[t], q)
    BY <1>1 DEF EntryIsAnswered
  <2>1. q # p /\ pendingAcks'[q] = pendingAcks[q] /\ sock[pendingAcks[q][1]] \in Sockets
    BY <1>4 DEF TypeOK, Closures
  <2> DEFINE t == sock[pendingAcks[q][1]]
  <2>2. Holds(acks[t], q) => Holds(acks'[t], q)
    BY <1>1, <2>1, HoldsStill DEF TypeOK
  <2> QED
    BY <2>1, <2>2 DEF PromptInv, EntryIsAnswered
<1>6. CASE c = NoEntry
  <2>1. AttemptsAreCounted'
    BY <1>1, <1>2, <1>6, CountsOfCalls DEF PromptInv
  <2> QED
    BY <1>3, <1>5, <2>1 DEF PromptInv
<1>7. CASE c # NoEntry
  <2>1. c[1] \in Ops /\ PacketOf[c[1]] = p /\ Waiting(c[1])
    BY <1>1, <1>7 DEF TypeOK, Closures, NoOrphanEntry, PromptInv, NothingFails
  <2>2. /\ phase'[c[1]] = "delivered"
        /\ \A w \in Ops \ {c[1]} : phase'[w] = phase[w]
    BY <1>2, <1>7, <2>1 DEF TypeOK
  <2>3. PICK o \in Ops : o = c[1]
    BY <2>1
  <2>4. /\ PacketOf[o] = p /\ Waiting(o) /\ phase'[o] = "delivered"
        /\ \A w \in Ops \ {o} : phase'[w] = phase[w]
    BY <2>1, <2>2, <2>3
  <2>5. AttemptsAreCounted'
    <3> DEFINE more == DeliveredCalls(PacketOf[o]) \cup {o}
    <3>0. /\ \A q : DeliveredCalls(q)' = IF q = PacketOf[o] THEN more ELSE DeliveredCalls(q)
          /\ Cardinality(more) = Cardinality(DeliveredCalls(PacketOf[o])) + 1
      BY <2>4, OneMoreDelivered DEF Waiting
    <3> HIDE DEF more, p, c
    <3> SUFFICES ASSUME NEW w \in Ops, NEW lost,
                        lost = Cardinality(DeliveredCalls(PacketOf[w]))'
                 PROVE  /\ phase'[w] \in {"idle", "trying"} => attempt'[w] <= lost + 1
                        /\ phase'[w] = "waiting" =>
                             \/ attempt'[w] <= lost
                             \/ attempt'[w] <= lost + 1 /\ pendingAcks'[PacketOf[w]] # NoEntry
      BY DEF AttemptsAreCounted, Waiting
    <3>1. attempt[w] \in Nat /\ Cardinality(DeliveredCalls(PacketOf[w])) \in Nat
      <4>1. attempt[w] \in Nat
        BY DEF TypeOK
      <4>2. Cardinality(DeliveredCalls(PacketOf[w])) \in Nat
        BY DeliveredAreFinite
      <4> QED
        BY <4>1, <4>2
    <3>2. CASE w = o
      BY <2>4, <3>2
    <3>3. CASE w # o
      <4>1. /\ phase'[w] = phase[w] /\ attempt' = attempt
            /\ lost = IF PacketOf[w] = PacketOf[o]
                      THEN Cardinality(DeliveredCalls(PacketOf[w])) + 1
                      ELSE Cardinality(DeliveredCalls(PacketOf[w]))
        BY <1>1, <2>4, <3>0, <3>3 DEF more
      <4>2. /\ phase[w] \in {"idle", "trying"}
               => attempt[w] <= Cardinality(DeliveredCalls(PacketOf[w])) + 1
            /\ phase[w] = "waiting" =>
                 \/ attempt[w] <= Cardinality(DeliveredCalls(PacketOf[w]))
                 \/ /\ attempt[w] <= Cardinality(DeliveredCalls(PacketOf[w])) + 1
                    /\ pendingAcks[PacketOf[w]] # NoEntry
        BY DEF PromptInv, AttemptsAreCounted, Waiting
      <4>3. /\ PacketOf[w] \in Packets
            /\ PacketOf[w] # PacketOf[o] => pendingAcks'[PacketOf[w]] = pendingAcks[PacketOf[w]]
        BY <1>4, <2>4
      <4> QED
        BY <3>1, <4>1, <4>2, <4>3
    <3> QED
      BY <3>2, <3>3
  <2> QED
    BY <1>3, <1>5, <2>5 DEF PromptInv
<1> QED
  BY <1>6, <1>7

\* The receiver takes a packet and answers it: the entry waits for the ACK then.
LEMMA ReceivePrompt ==
  ASSUME RoomForAll, TypeOK, PromptInv, NEW s \in Sockets, Receive(s)
  PROVE  PromptInv'
<1>1. PICK p \in Packets : Arriving(s, p) /\ Acknowledge(s, p)
                           /\ UNCHANGED <<senderVars, receiverOpen>>
  BY MemoryHasRoom DEF Receive, ReceiveDuplicate, Accept, Refuse, receiverVars
<1>2. /\ wire[s] # <<>> /\ p = Head(wire[s])
      /\ wire' = [wire EXCEPT ![s] = Tail(wire[s])]
      /\ acks' = [acks EXCEPT ![s] = Append(acks[s], p)]
  BY <1>1 DEF Arriving, Acknowledge
<1>3. ASSUME NEW t \in Sockets, NEW q \in Packets, Holds(wire[t], q) \/ Holds(acks[t], q)
      PROVE  Holds(wire'[t], q) \/ Holds(acks'[t], q)
  <2>1. wire[t] \in Seq(Packets) /\ acks[t] \in Seq(Packets)
    BY DEF TypeOK
  <2>2. CASE t = s
    <3>1. wire'[t] = Tail(wire[t]) /\ acks'[t] = Append(acks[t], p)
      BY <1>2, <2>2 DEF TypeOK
    <3>2. Holds(acks'[t], p) /\ (Holds(acks[t], q) => Holds(acks'[t], q))
      BY <2>1, <3>1, HoldsMore
    <3>3. Holds(wire[t], q) /\ q # p => Holds(wire'[t], q)
      BY <1>2, <2>1, <2>2, <3>1, HoldsStill
    <3> QED
      BY <1>3, <3>2, <3>3
  <2>3. CASE t # s
    BY <1>2, <1>3, <2>3 DEF TypeOK
  <2> QED
    BY <2>2, <2>3
<1>4. NothingFails' /\ OneSocketEach'
  BY <1>1 DEF senderVars, PromptInv, NothingFails, OneSocketEach
<1>5. EntryIsAnswered' /\ AttemptsAreCounted'
  BY <1>1, <1>3, EntriesStayAnswered, CountsOfCalls DEF senderVars, PromptInv
<1> QED
  BY <1>4, <1>5 DEF PromptInv

LEMMA StepPrompt ==
  ASSUME RoomForAll, Prompt, ~Faulty, Abortable = {}, TypeOK, WaitingInRange, NoOrphanEntry,
         PromptInv, [Next]_vars
  PROVE  PromptInv'
<1> USE PacketDeliveryAssumption
<1>1. ASSUME NEW o \in Ops, Begin(o) PROVE PromptInv'
  <2>1. /\ UNCHANGED <<sock, attempt, aborted, pendingAcks, ghosts, senderOpen, receiverOpen,
                       wire, acks>>
        /\ phase[o] = "idle" /\ phase' = [phase EXCEPT ![o] = "trying"]
    BY <1>1 DEF Begin, receiverVars
  <2>2. AttemptsAreCounted'
    BY <2>1, CountsStay DEF PromptInv, AttemptsAreCounted, Phases
  <2> QED
    BY <2>1, <2>2, EntriesStayAnswered DEF PromptInv, NothingFails, OneSocketEach
<1>2. ASSUME NEW o \in Ops, Step(o) PROVE PromptInv'
  <2>1. ~TryClosed(o)
    BY DEF TryClosed, TypeOK, PromptInv, NothingFails
  <2>2. ~TrySocketFull(o) /\ \A s \in Sockets : ~TryTotalFull(o, s) /\ ~FailTotalFull(o, s)
    BY TablesHaveRoom DEF TrySocketFull, TryTotalFull, FailTotalFull, AtTotalLimit
  <2>3. ~GiveUp(o)
    <3>1. attempt[o] \in Nat /\ MaxAttempts \in Nat
      BY DEF TypeOK
    <3> QED
      BY <3>1, AttemptsSuffice DEF GiveUp, PromptInv
  <2> QED
    BY <1>2, <2>1, <2>2, <2>3, TryPrompt DEF Step
<1>3. ASSUME NEW o \in Ops, Timeout(o) PROVE PromptInv'
  BY <1>3, TimeoutPrompt
<1>4. ASSUME NEW o \in Ops, Abort(o) PROVE FALSE
  BY <1>4 DEF Abort
<1>5. ASSUME NEW g \in Closures, GhostTimeout(g) PROVE FALSE
  BY <1>5 DEF GhostTimeout, PromptInv, NothingFails
<1>6. ASSUME NEW s \in Sockets, ReceiveAck(s) PROVE PromptInv'
  BY <1>6, AckPrompt
<1>7. ASSUME NEW s \in Sockets, Receive(s) PROVE PromptInv'
  BY <1>7, ReceivePrompt
<1>8. ASSUME NEW s \in Sockets, SenderCloses(s) \/ ReceiverCloses(s) \/ Lose(s) PROVE FALSE
  BY <1>8 DEF SenderCloses, ReceiverCloses, Lose, PromptInv, NothingFails
<1>9. CASE \/ \E p \in Packets : Expire(p)
           \/ \E c \in Clients : DropBucket(c)
           \/ UNCHANGED vars
  <2>1. UNCHANGED <<senderVars, receiverOpen, wire, acks>>
    BY <1>9 DEF Expire, DropBucket, vars, receiverVars
  <2>2. UNCHANGED <<phase, sock, attempt, aborted, pendingAcks, ghosts, senderOpen>>
    BY <2>1 DEF senderVars
  <2> QED
    BY <2>1, <2>2, EntriesStayAnswered, CountsOfCalls DEF PromptInv, NothingFails, OneSocketEach
<1> QED
  BY <1>1, <1>2, <1>3, <1>4, <1>5, <1>6, <1>7, <1>8, <1>9 DEF Next

(***************************************************************************)
(* When ACKs come in time and nothing else fails, no socket is closed by   *)
(* the ACK system, however many calls of a packet overwrite each other's   *)
(* entry: their retries suffice, when each packet keeps to one socket.     *)
(***************************************************************************)
THEOREM PromptNetworksKeepSockets ==
  ASSUME RoomForAll, Prompt, ~Faulty, Abortable = {}
  PROVE  Spec /\ OneSocketEach => []PromptNetworkKeepsSockets
<1>1. Init /\ OneSocketEach => PromptInv
  <2> SUFFICES ASSUME Init, OneSocketEach PROVE PromptInv
    OBVIOUS
  <2>1. NothingFails /\ EntryIsAnswered
    BY DEF Init, NothingFails, EntryIsAnswered
  <2>2. AttemptsAreCounted
    <3> SUFFICES ASSUME NEW o \in Ops
                 PROVE  /\ ~Waiting(o)
                        /\ attempt[o] <= Cardinality(DeliveredCalls(PacketOf[o])) + 1
      BY DEF AttemptsAreCounted
    <3> QED
      BY DeliveredAreFinite DEF Init, Waiting
  <2> QED
    BY <2>1, <2>2 DEF PromptInv
<1>2. TypeOK /\ WaitingInRange /\ NoOrphanEntry /\ PromptInv /\ [Next]_vars => PromptInv'
  BY StepPrompt
<1>3. PromptInv => PromptNetworkKeepsSockets
  BY DEF PromptInv, NothingFails, PromptNetworkKeepsSockets
<1> QED
  BY <1>1, <1>2, <1>3, TypeCorrect, EntriesBelongToAttempts, PTL DEF Spec
=============================================================================
