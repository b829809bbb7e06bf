--------------------------- MODULE PacketDelivery ---------------------------
(***************************************************************************)
(* The ACK system of src/src/PerfectWS.ts: _sendWithAck on the sending     *)
(* router and _acceptPacket on the receiving one, over a set of sockets.   *)
(*                                                                         *)
(* An "operation" is one call of _sendWithAck.  Several operations may     *)
(* carry the same packet id, on one socket or on several: a reconnect      *)
(* makes the original send loop, the replay of the synchronisation and the *)
(* resend of retryOnClose repeat the id of the first attempt.  A socket    *)
(* carries messages in order while the receiver reads it and loses what is *)
(* in flight when an end closes.                                           *)
(*                                                                         *)
(* The map _pendingAcks is keyed by packet id alone, so an attempt may     *)
(* overwrite the entry of another one, and each attempt's clean-up deletes *)
(* whatever entry the id has by then.  A "closure" <<o, k>> is the promise *)
(* of attempt k of operation o, the object such an entry points to.        *)
(***************************************************************************)
EXTENDS Naturals, Sequences, FiniteSets

CONSTANTS
  Packets,         \* packet ids (randomUUID values)
  Ops,             \* calls of _sendWithAck
  PacketOf,        \* PacketOf[o]: the packet id call o carries
  Clients,         \* identities of the peers (_perfectWSDedupeClientId)
  Owner,           \* Owner[p]: the client that packet p is exchanged with
  Sockets,
  ClientOf,        \* ClientOf[s]: the client at the other end of s
  MaxAttempts,     \* 1 + Len(config.ackRetryDelays)
  MaxPendingAcks,  \* config.maxPendingAcks, per socket
  MaxTotalPendingAcks,
  MaxProcessedPackets,       \* config.maxProcessedPackets, per client
  MaxProcessedPacketClients,
  MaxTotalProcessedPackets,
  MaxExpiries,     \* bound: how often the retention of one packet may end
  Abortable,       \* calls that were given an abortSignal
  Faulty,          \* may sockets close and sends throw?
  Prompt,          \* do ACKs always arrive before the ACK timeout?
  NoEntry          \* not a closure: the id has no entry in _pendingAcks

Attempts == 1 .. MaxAttempts
Closures == Ops \X Attempts

ASSUME PacketDeliveryAssumption ==
  /\ PacketOf \in [Ops -> Packets]
  /\ Owner \in [Packets -> Clients]
  /\ ClientOf \in [Sockets -> Clients]
  /\ MaxAttempts \in Nat \ {0}
  /\ {MaxPendingAcks, MaxTotalPendingAcks, MaxProcessedPackets,
      MaxProcessedPacketClients, MaxTotalProcessedPackets, MaxExpiries} \subseteq Nat
  /\ Abortable \subseteq Ops
  /\ Faulty \in BOOLEAN
  /\ Prompt \in BOOLEAN
  /\ NoEntry \notin Closures

VARIABLES
  phase,        \* where each call is in its loop, or how it returned
  sock,         \* the socket each call was given
  attempt,      \* the attempt that is waiting or is to be made next
  aborted,      \* calls whose abortSignal has fired
  pendingAcks,  \* _pendingAcks: packet id -> closure or NoEntry
  ghosts,       \* closures whose send threw: rejected, but never cleaned up
  senderOpen,   \* sockets whose readyState is OPEN at the sender
  receiverOpen, \* sockets the receiver still reads
  wire,         \* packets in flight, per socket
  acks,         \* ___ack messages in flight, per socket
  processed,    \* ids in _processedPacketsByClient (or _processedPackets)
  buckets,      \* clients with a map in _processedPacketsByClient
  accepted,     \* history: how often _acceptPacket said true for an id
  expired       \* history: how often the retention of an id ended

senderVars   == <<phase, sock, attempt, aborted, pendingAcks, ghosts, senderOpen>>
receiverVars == <<receiverOpen, processed, buckets, accepted, expired>>
vars == <<senderVars, receiverVars, wire, acks>>

Returned == {"delivered", "failed", "refused", "cancelled"}
Phases   == {"idle", "trying", "waiting"} \cup Returned

TypeOK ==
  /\ phase \in [Ops -> Phases]
  /\ sock \in [Ops -> Sockets]
  /\ attempt \in [Ops -> 1 .. MaxAttempts + 1]
  /\ aborted \subseteq Ops
  /\ pendingAcks \in [Packets -> Closures \cup {NoEntry}]
  /\ ghosts \subseteq Closures
  /\ senderOpen \subseteq Sockets
  /\ receiverOpen \subseteq Sockets
  /\ wire \in [Sockets -> Seq(Packets)]
  /\ acks \in [Sockets -> Seq(Packets)]
  /\ processed \subseteq Packets
  /\ buckets \subseteq Clients
  /\ accepted \in [Packets -> Nat]
  /\ expired \in [Packets -> Nat]

Init ==
  /\ phase = [o \in Ops |-> "idle"]
  /\ sock \in [Ops -> Sockets]
  /\ \A o \in Ops : ClientOf[sock[o]] = Owner[PacketOf[o]]
  /\ attempt = [o \in Ops |-> 1]
  /\ aborted = {}
  /\ pendingAcks = [p \in Packets |-> NoEntry]
  /\ ghosts = {}
  /\ senderOpen = Sockets
  /\ receiverOpen = Sockets
  /\ wire = [s \in Sockets |-> <<>>]
  /\ acks = [s \in Sockets |-> <<>>]
  /\ processed = {}
  /\ buckets = {}
  /\ accepted = [p \in Packets |-> 0]
  /\ expired = [p \in Packets |-> 0]

-----------------------------------------------------------------------------
(* The sender.                                                             *)

Closure(o) == <<o, attempt[o]>>

Waiting(o) == phase[o] = "waiting"

\* Closures that listen to the close event of a socket in S: those of the
\* waiting attempts, and the ghosts.
Listening(S) ==
  {Closure(o) : o \in {w \in Ops : Waiting(w) /\ sock[w] \in S}}
    \cup {g \in ghosts : sock[g[1]] \in S}

\* cleanup(): whatever entry the packet ids of the closures C have is deleted.
Cleanup(C) ==
  [p \in Packets |-> IF \E c \in C : PacketOf[c[1]] = p THEN NoEntry ELSE pendingAcks[p]]

\* Entries of _pendingAcks made for socket s.
Pending(s) == {p \in Packets : pendingAcks[p] # NoEntry /\ sock[pendingAcks[p][1]] = s}

AllPending == {p \in Packets : pendingAcks[p] # NoEntry}

\* forceClose runs the close listeners in the same turn: every wait on a socket
\* in S resolves to false, and its call goes on to the next attempt.  Closing a
\* socket that is closed does nothing: its close event has been dispatched, and
\* a listener added since (of a ghost made on it) never runs.
Interrupted(S) == {o \in Ops : Waiting(o) /\ sock[o] \in S}
\* Mutant of PhaseAfterClose: the close listener of an attempt that is over goes
\* on with its call.
PhaseAfterCloseOfAny(S) ==
  [o \in Ops |-> IF sock[o] \in S /\ phase[o] = "delivered" THEN "trying" ELSE phase[o]]

PhaseAfterClose(S) == [o \in Ops |-> IF o \in Interrupted(S) THEN "trying" ELSE phase[o]]
AttemptAfterClose(S) == [o \in Ops |-> IF o \in Interrupted(S) THEN attempt[o] + 1 ELSE attempt[o]]
GhostsAfterClose(S) == {g \in ghosts : sock[g[1]] \notin S}

\* The open sockets S close at the sender; call o, which may be the cause, ends
\* up in phase "result".
CloseAnd(S, o, result) ==
  /\ senderOpen' = senderOpen \ S
  /\ pendingAcks' = Cleanup(Listening(S))
  /\ ghosts' = GhostsAfterClose(S)
  /\ phase' = [PhaseAfterClose(S) EXCEPT ![o] = result]
  /\ attempt' = AttemptAfterClose(S)

\* _sendWithAck is called.
Begin(o) ==
  /\ phase[o] = "idle"
  /\ phase' = [phase EXCEPT ![o] = "trying"]
  /\ UNCHANGED <<sock, attempt, aborted, pendingAcks, ghosts, senderOpen, receiverVars, wire, acks>>

\* The socket is not OPEN at the start of an attempt: return false.
TryClosed(o) ==
  /\ phase[o] = "trying"
  /\ attempt[o] <= MaxAttempts
  /\ sock[o] \notin senderOpen
  /\ phase' = [phase EXCEPT ![o] = "failed"]
  /\ UNCHANGED <<sock, attempt, aborted, pendingAcks, ghosts, senderOpen, receiverVars, wire, acks>>

Ready(o) == phase[o] = "trying" /\ attempt[o] <= MaxAttempts /\ sock[o] \in senderOpen

SocketFull(s) == Cardinality(Pending(s)) >= MaxPendingAcks
TotalFull == Cardinality(AllPending) >= MaxTotalPendingAcks

\* The body of the promise of one attempt, over the entries, ghosts, phases
\* and open sockets the capacity checks left: the entry is set, replacing the
\* one of another closure if there is one; an abort that has already fired
\* cleans up again; a send that throws leaves entry and timer behind.
Attempt(o, entries, leftGhosts, phases, open) ==
  \/ /\ o \in aborted
     /\ pendingAcks' = [entries EXCEPT ![PacketOf[o]] = NoEntry]
     /\ phase' = [phases EXCEPT ![o] = "cancelled"]
     /\ ghosts' = leftGhosts
     /\ UNCHANGED wire
  \/ /\ o \notin aborted
     /\ sock[o] \notin open \/ Faulty
     /\ pendingAcks' = [entries EXCEPT ![PacketOf[o]] = Closure(o)]
     /\ phase' = [phases EXCEPT ![o] = "refused"]
     /\ ghosts' = leftGhosts \cup {Closure(o)}
     /\ UNCHANGED wire
  \/ /\ o \notin aborted
     /\ sock[o] \in open
     /\ pendingAcks' = [entries EXCEPT ![PacketOf[o]] = Closure(o)]
     /\ phase' = [phases EXCEPT ![o] = "waiting"]
     /\ ghosts' = leftGhosts
     /\ wire' = [wire EXCEPT ![sock[o]] =
                    IF sock[o] \in receiverOpen THEN Append(@, PacketOf[o]) ELSE @]

Try(o) ==
  /\ Ready(o)
  /\ ~SocketFull(sock[o])
  /\ ~TotalFull
  /\ Attempt(o, pendingAcks, ghosts, phase, senderOpen)
  /\ UNCHANGED <<sock, attempt, aborted, senderOpen, receiverVars, acks>>

\* The per-socket limit: the socket is closed and the call returns false.
TrySocketFull(o) ==
  /\ Ready(o)
  /\ SocketFull(sock[o])
  /\ CloseAnd({sock[o]} \cap senderOpen, o, "failed")
  /\ UNCHANGED <<sock, aborted, receiverVars, wire, acks>>

\* The router-wide limit closes the socket with the most entries (the order of
\* the map breaks ties), unless there is no entry or the socket is closed.
AtTotalLimit(o, s) ==
  /\ Ready(o)
  /\ ~SocketFull(sock[o])
  /\ TotalFull
  /\ \A t \in Sockets : Cardinality(Pending(t)) <= Cardinality(Pending(s))

Saturated(s) == {t \in {s} \cap senderOpen : Pending(t) # {}}

RoomIn(entries) ==
  Cardinality({p \in Packets : entries[p] # NoEntry}) < MaxTotalPendingAcks

\* When the close made room, the attempt is made.
TryTotalFull(o, s) ==
  /\ AtTotalLimit(o, s)
  /\ RoomIn(Cleanup(Listening(Saturated(s))))
  /\ senderOpen' = senderOpen \ Saturated(s)
  /\ attempt' = AttemptAfterClose(Saturated(s))
  /\ Attempt(o, Cleanup(Listening(Saturated(s))), GhostsAfterClose(Saturated(s)),
             PhaseAfterClose(Saturated(s)), senderOpen \ Saturated(s))
  /\ UNCHANGED <<sock, aborted, receiverVars, acks>>

\* When it did not, the call returns false, its own socket as it is.
FailTotalFull(o, s) ==
  /\ AtTotalLimit(o, s)
  /\ ~RoomIn(Cleanup(Listening(Saturated(s))))
  /\ CloseAnd(Saturated(s), o, "failed")
  /\ UNCHANGED <<sock, aborted, receiverVars, wire, acks>>

\* With Prompt, an ACK timer only runs out when nothing more can come for it.
Holds(queue, p) == \E i \in DOMAIN queue : queue[i] = p

Unanswered(o) ==
  Prompt => /\ ~Holds(wire[sock[o]], PacketOf[o])
            /\ ~Holds(acks[sock[o]], PacketOf[o])

\* Mutant of Timeout: the timer of an attempt whose entry was replaced is lost.
TimeoutOfEntry(o) ==
  /\ Waiting(o)
  /\ Unanswered(o)
  /\ pendingAcks[PacketOf[o]] = Closure(o)
  /\ pendingAcks' = Cleanup({Closure(o)})
  /\ phase' = [phase EXCEPT ![o] = "trying"]
  /\ attempt' = [attempt EXCEPT ![o] = @ + 1]
  /\ UNCHANGED <<sock, aborted, ghosts, senderOpen, receiverVars, wire, acks>>

\* The ACK timeout of the waiting attempt.
Timeout(o) ==
  /\ Waiting(o)
  /\ Unanswered(o)
  /\ pendingAcks' = Cleanup({Closure(o)})
  /\ phase' = [phase EXCEPT ![o] = "trying"]
  /\ attempt' = [attempt EXCEPT ![o] = @ + 1]
  /\ UNCHANGED <<sock, aborted, ghosts, senderOpen, receiverVars, wire, acks>>

\* Mutant of GiveUp: the socket is not closed.
GiveUpQuietly(o) ==
  /\ phase[o] = "trying"
  /\ attempt[o] > MaxAttempts
  /\ phase' = [phase EXCEPT ![o] = "failed"]
  /\ UNCHANGED <<sock, attempt, aborted, pendingAcks, ghosts, senderOpen, receiverVars, wire, acks>>

\* All attempts are used up: the socket is closed and the call returns false.
GiveUp(o) ==
  /\ phase[o] = "trying"
  /\ attempt[o] > MaxAttempts
  /\ CloseAnd({sock[o]} \cap senderOpen, o, "failed")
  /\ UNCHANGED <<sock, aborted, receiverVars, wire, acks>>

\* The timer of an attempt whose send threw still runs, and its clean-up
\* deletes the entry the id has by then.
GhostTimeout(g) ==
  /\ g \in ghosts
  /\ pendingAcks' = Cleanup({g})
  /\ ghosts' = ghosts \ {g}
  /\ UNCHANGED <<phase, sock, attempt, aborted, senderOpen, receiverVars, wire, acks>>

\* Mutant of Abort: no clean-up.
AbortWithoutCleanup(o) ==
  /\ o \in Abortable
  /\ o \notin aborted
  /\ phase[o] \in {"trying", "waiting"}
  /\ aborted' = aborted \cup {o}
  /\ phase' = IF Waiting(o) THEN [phase EXCEPT ![o] = "cancelled"] ELSE phase
  /\ UNCHANGED <<sock, attempt, pendingAcks, ghosts, senderOpen, receiverVars, wire, acks>>

\* The caller's abortSignal fires.  A waiting attempt rejects and the call
\* returns false; between attempts the next one notices.
Abort(o) ==
  /\ o \in Abortable
  /\ o \notin aborted
  /\ phase[o] \in {"trying", "waiting"}
  /\ aborted' = aborted \cup {o}
  /\ IF Waiting(o)
     THEN /\ pendingAcks' = Cleanup({Closure(o)})
          /\ phase' = [phase EXCEPT ![o] = "cancelled"]
     ELSE UNCHANGED <<pendingAcks, phase>>
  /\ UNCHANGED <<sock, attempt, ghosts, senderOpen, receiverVars, wire, acks>>

\* A ___ack arrives.  The entry is looked up by packet id, whichever socket
\* the ACK came on, and resolved; a ghost only cleans up.
ReceiveAck(s) ==
  /\ acks[s] # <<>>
  /\ acks' = [acks EXCEPT ![s] = Tail(@)]
  /\ LET p == Head(acks[s])
         c == pendingAcks[p]
     IN IF c = NoEntry
        THEN UNCHANGED <<pendingAcks, phase, ghosts>>
        ELSE /\ pendingAcks' = [pendingAcks EXCEPT ![p] = NoEntry]
             /\ ghosts' = ghosts \ {c}
             /\ phase' = [phase EXCEPT ![c[1]] = IF c \in ghosts THEN @ ELSE "delivered"]
  /\ UNCHANGED <<sock, attempt, aborted, senderOpen, receiverVars, wire>>

-----------------------------------------------------------------------------
(* The receiver.                                                           *)

ProcessedOf(c) == {p \in processed : Owner[p] = c}

NoRoom(p) ==
  \/ Cardinality(ProcessedOf(Owner[p])) >= MaxProcessedPackets
  \/ Owner[p] \notin buckets /\ Cardinality(buckets) >= MaxProcessedPacketClients
  \/ Cardinality(processed) >= MaxTotalProcessedPackets

Arriving(s, p) == s \in receiverOpen /\ wire[s] # <<>> /\ p = Head(wire[s])

\* Take the first packet of s and acknowledge it on s.
Acknowledge(s, p) ==
  /\ wire' = [wire EXCEPT ![s] = Tail(@)]
  /\ acks' = [acks EXCEPT ![s] = Append(@, p)]

\* Mutant of ReceiveDuplicate: a duplicate is dropped without an ACK.
DropDuplicate(s, p) ==
  /\ Arriving(s, p)
  /\ p \in processed
  /\ wire' = [wire EXCEPT ![s] = Tail(@)]
  /\ UNCHANGED <<senderVars, receiverVars, acks>>

\* The id is known: acknowledged again, not accepted.
ReceiveDuplicate(s, p) ==
  /\ Arriving(s, p)
  /\ p \in processed
  /\ Acknowledge(s, p)
  /\ UNCHANGED <<senderVars, receiverVars>>

\* Mutant of Accept: the id is not looked up.
AcceptAgain(s, p) ==
  /\ Arriving(s, p)
  /\ p \in processed \/ ~NoRoom(p)
  /\ processed' = processed \cup {p}
  /\ buckets' = buckets \cup {Owner[p]}
  /\ accepted' = [accepted EXCEPT ![p] = @ + 1]
  /\ Acknowledge(s, p)
  /\ UNCHANGED <<senderVars, receiverOpen, expired>>

Accept(s, p) ==
  /\ Arriving(s, p)
  /\ p \notin processed
  /\ ~NoRoom(p)
  /\ processed' = processed \cup {p}
  /\ buckets' = buckets \cup {Owner[p]}
  /\ accepted' = [accepted EXCEPT ![p] = @ + 1]
  /\ Acknowledge(s, p)
  /\ UNCHANGED <<senderVars, receiverOpen, expired>>

\* Mutant of Refuse: the ACK is sent although the id is not remembered.
RefuseWithAck(s, p) ==
  /\ Arriving(s, p)
  /\ p \notin processed
  /\ Acknowledge(s, p)
  /\ UNCHANGED <<senderVars, receiverVars>>

\* No room to remember the id: the packet is dropped with its socket.
Refuse(s, p) ==
  /\ Arriving(s, p)
  /\ p \notin processed
  /\ NoRoom(p)
  /\ receiverOpen' = receiverOpen \ {s}
  /\ wire' = [wire EXCEPT ![s] = <<>>]
  /\ UNCHANGED <<senderVars, processed, buckets, accepted, expired, acks>>

\* processedPacketsRetention has passed for p, at the next packet of the same
\* client or at the next round of the cleanup loop.
Expire(p) ==
  /\ p \in processed
  /\ expired[p] < MaxExpiries
  /\ processed' = processed \ {p}
  /\ expired' = [expired EXCEPT ![p] = @ + 1]
  /\ UNCHANGED <<senderVars, receiverOpen, buckets, accepted, wire, acks>>

\* The cleanup loop drops the map of a client that has no id left.
DropBucket(c) ==
  /\ c \in buckets
  /\ ProcessedOf(c) = {}
  /\ buckets' = buckets \ {c}
  /\ UNCHANGED <<senderVars, receiverOpen, processed, accepted, expired, wire, acks>>

-----------------------------------------------------------------------------
(* The network.                                                            *)

\* The sender's end closes (setServer, a ping failure, a network error) or
\* hears that the other end has closed.  What the receiver has not read may
\* still arrive.
SenderCloses(s) ==
  /\ s \in senderOpen
  /\ Faulty \/ s \notin receiverOpen
  /\ senderOpen' = senderOpen \ {s}
  /\ pendingAcks' = Cleanup(Listening({s}))
  /\ ghosts' = GhostsAfterClose({s})
  /\ phase' = PhaseAfterClose({s})
  /\ attempt' = AttemptAfterClose({s})
  /\ UNCHANGED <<sock, aborted, receiverVars, wire, acks>>

\* The receiver's end closes and its message listener is removed.
ReceiverCloses(s) ==
  /\ s \in receiverOpen
  /\ Faulty \/ s \notin senderOpen
  /\ receiverOpen' = receiverOpen \ {s}
  /\ wire' = [wire EXCEPT ![s] = <<>>]
  /\ UNCHANGED <<senderVars, processed, buckets, accepted, expired, acks>>

\* What is in flight on a socket that has closed at one end is lost.
Lose(s) ==
  /\ s \notin senderOpen \/ s \notin receiverOpen
  /\ acks[s] # <<>>
  /\ acks' = [acks EXCEPT ![s] = <<>>]
  /\ UNCHANGED <<senderVars, receiverVars, wire>>

-----------------------------------------------------------------------------

Step(o) == TryClosed(o) \/ Try(o) \/ TrySocketFull(o) \/ GiveUp(o)
           \/ \E s \in Sockets : TryTotalFull(o, s) \/ FailTotalFull(o, s)

Receive(s) == \E p \in Packets : ReceiveDuplicate(s, p) \/ Accept(s, p) \/ Refuse(s, p)

Next ==
  \/ \E o \in Ops : Begin(o) \/ Step(o) \/ Timeout(o) \/ Abort(o)
  \/ \E g \in Closures : GhostTimeout(g)
  \/ \E s \in Sockets : ReceiveAck(s) \/ Receive(s) \/ SenderCloses(s) \/ ReceiverCloses(s) \/ Lose(s)
  \/ \E p \in Packets : Expire(p)
  \/ \E c \in Clients : DropBucket(c)

Spec == Init /\ [][Next]_vars

\* Timers run out, the code between two awaits runs, a closed socket is heard
\* of and open sockets move their messages.
Fairness ==
  /\ \A o \in Ops : WF_vars(Step(o)) /\ WF_vars(Timeout(o))
  /\ \A g \in Closures : WF_vars(GhostTimeout(g))
  /\ \A s \in Sockets : WF_vars(ReceiveAck(s)) /\ WF_vars(Receive(s))

FairSpec == Spec /\ Fairness

-----------------------------------------------------------------------------
(* Properties.                                                             *)

\* A packet id is accepted (and its message handled) once per retention period,
\* however many attempts, calls and sockets carried it: _acceptPacket.
AcceptedOncePerRetention ==
  \A p \in Packets : accepted[p] = expired[p] + (IF p \in processed THEN 1 ELSE 0)

\* _sendWithAck answers true only for a packet its peer has accepted, whatever
\* happened to the entries of other attempts with the same id, to refusals for
\* lack of room, and to ACKs that arrive late or on another socket.
DeliveredWasAccepted ==
  \A o \in Ops : phase[o] = "delivered" => accepted[PacketOf[o]] > 0

\* The ACK system implements AckedDelivery: what a caller and a handler see of
\* it is acceptance once per retention and reports that are true and final.
OutcomeOf(o) ==
  IF phase[o] = "delivered" THEN "delivered"
  ELSE IF phase[o] \in Returned THEN "unconfirmed"
  ELSE "pending"

Abstract == INSTANCE AckedDelivery WITH
              remembered <- processed,
              outcome <- [o \in Ops |-> OutcomeOf(o)]

ImplementsAckedDelivery == Abstract!Spec

\* No entry of _pendingAcks outlives its attempt: it belongs to an attempt that
\* still waits, or to a ghost whose timer has not run yet, so that no path of
\* clean-up (ACK, timeout, close, abort) leaks one.
NoOrphanEntry ==
  \A p \in Packets : pendingAcks[p] # NoEntry =>
    LET c == pendingAcks[p] IN
      /\ PacketOf[c[1]] = p
      /\ c \in ghosts \/ (Waiting(c[1]) /\ attempt[c[1]] = c[2])

\* A ghost made on a socket that its own call had closed: nothing but its timer
\* or a late ACK removes its entry.
LateGhost(g) ==
  /\ g \in ghosts
  /\ sock[g[1]] \notin senderOpen
  /\ pendingAcks[PacketOf[g[1]]] = g

\* A call that fails for want of an ACK or of room leaves no half-open socket
\* behind: its socket is closed at the sender, which is what starts the
\* reconnect path.  The one exception is the router-wide limit while the entry
\* of a late ghost keeps it reached (or the limit is 0): 1046-1049.
FailureClosesSocket ==
  [][\A o \in Ops :
       /\ phase[o] # "failed" /\ phase'[o] = "failed"
       /\ MaxTotalPendingAcks > 0
       /\ ~\E g \in Closures : LateGhost(g)
       => sock'[o] \notin senderOpen']_vars

\* While every packet is answered within its ACK timeout, no socket is closed:
\* calls that overwrite each other's entry recover by their retries.  (Runs
\* with Prompt, without faults or aborts and with room everywhere.)
PromptNetworkKeepsSockets == senderOpen = Sockets

\* Every call returns, even when another attempt took over its entry.
EveryCallReturns == \A o \in Ops : phase[o] = "trying" ~> phase[o] \in Returned

=============================================================================
