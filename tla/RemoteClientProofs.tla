------------------------- MODULE RemoteClientProofs -------------------------
(* RemoteClient hands a socket over only when the host is there to serve    *)
(* it, and stop() is final: for any number of attempts, and whether or not  *)
(* messages are dispatched in one turn.                                     *)
EXTENDS RemoteClient, TLAPS

\* How far the handshake on an open socket is, message by message.
Progress ==
  \/ host = "asking" /\ inbox = <<>> /\ handler = "none" /\ ready = "off"
     /\ router = "temporary"
  \/ host = "finalizing" /\ inbox = <<"initialized">> /\ handler = "none" /\ ready = "off"
     /\ router = "temporary"
  \/ host = "finalizing" /\ inbox = <<>> /\ handler = "sending" /\ ready = "listening"
     /\ router = "temporary"
  \/ host = "attached" /\ inbox = <<"ack", "ready">> /\ handler = "sending"
     /\ ready = "listening" /\ router = "temporary"
  \/ host = "attached" /\ inbox = <<"ready">> /\ handler \in {"returning", "awaiting"}
     /\ ready = "listening" /\ router # "persistent"
  \/ host = "attached" /\ inbox = <<>> /\ handler \in {"returning", "awaiting"}
     /\ ready = "yes" /\ router # "persistent"
  \/ host = "attached" /\ inbox = <<>> /\ handler = "none" /\ ready = "off"
     /\ router = "persistent" /\ server = try

\* A socket that is not open is read by nobody, and hostReady is not true.
Given == inbox = <<>> /\ router # "persistent" /\ ready \in {"off", "no"}
         /\ handler \in {"none", "returning", "awaiting", "failed"}

ClientInv ==
  /\ try \in Nat
  /\ IF link = "open" THEN ~stopped /\ Progress ELSE Given
  /\ loop = "open" => link = "open"
  /\ loop \in {"new", "sleeping"} => link # "open" /\ ~stopped
  /\ stopped => server = 0 /\ loop = "done"

LEMMA InitClient == Init => ClientInv
BY DEF Init, ClientInv, Given

\* The messages of an open socket, in their order.
LEMMA ReadsFirst ==
  ASSUME NEW m, Reads(m), ClientInv
  PROVE  /\ link = "open" /\ inbox # <<>>
         /\ inbox = <<"initialized">> => m = "initialized" /\ inbox' = <<>>
         /\ inbox = <<"ack", "ready">> => m = "ack" /\ inbox' = <<"ready">>
         /\ inbox = <<"ready">> => m = "ready" /\ inbox' = <<>>
<1>1. inbox # <<>> /\ m = Head(inbox) /\ inbox' = Tail(inbox)
  BY DEF Reads
<1>2. link = "open"
  BY <1>1 DEF ClientInv, Given
<1>3. /\ Head(<<"initialized">>) = "initialized" /\ Tail(<<"initialized">>) = <<>>
      /\ Head(<<"ready">>) = "ready" /\ Tail(<<"ready">>) = <<>>
  OBVIOUS
<1>4. Head(<<"ack", "ready">>) = "ack" /\ Tail(<<"ack", "ready">>) = <<"ready">>
  OBVIOUS
<1>5. QED
  BY <1>1, <1>2, <1>3, <1>4, Zenon

LEMMA StepClient == ClientInv /\ [Next]_vars => ClientInv'
<1> SUFFICES ASSUME ClientInv, [Next]_vars PROVE ClientInv'
  OBVIOUS
<1>1. CASE Open
  BY <1>1 DEF ClientInv, Open, Progress
<1>2. ASSUME NEW up \in BOOLEAN, Closed(up), Quiet, link = "open", UNCHANGED <<try, host>>
      PROVE  link' = "closed" /\ Given' /\ try' \in Nat
             /\ loop' \in {"sleeping", "done"} /\ (~up => loop' = "done")
  <2>1. ready' \in {"off", "no"} /\ handler' \in {"none", "returning", "awaiting", "failed"}
    BY <1>2 DEF ClientInv, Progress, Closed, Quiet
  <2>2. QED
    BY <1>2, <2>1 DEF ClientInv, Closed, Given
<1>3. CASE Lose
  <2>1. link' = "closed" /\ Given' /\ try' \in Nat /\ loop' \in {"sleeping", "done"}
    BY <1>2, <1>3 DEF Lose
  <2>2. QED
    BY <1>3, <2>1 DEF ClientInv, Lose
<1>4. CASE Stop
  <2>1. CASE link = "open" /\ Closed(FALSE)
    <3>1. link' = "closed" /\ Given' /\ try' \in Nat /\ loop' = "done"
      BY <1>2, <1>4, <2>1 DEF Stop
    <3>2. QED
      BY <1>4, <3>1 DEF ClientInv, Stop
  <2>2. CASE /\ link # "open" /\ loop' = "done"
             /\ UNCHANGED <<link, router, inbox, handler, ready>>
    BY <1>4, <2>2 DEF ClientInv, Stop, Given
  <2>3. QED
    BY <1>4, <2>1, <2>2 DEF Stop
<1>5. CASE HostFinalizes
  BY <1>5 DEF ClientInv, HostFinalizes, Progress
<1>6. CASE HostAttaches
  <2>1. inbox = <<>> /\ inbox' = <<>> \o <<"ack", "ready">>
    BY <1>6 DEF ClientInv, HostAttaches, Progress
  <2>2. inbox' = <<"ack", "ready">>
    BY <2>1
  <2>3. QED
    BY <1>6, <2>2 DEF ClientInv, HostAttaches, Progress
<1>7. CASE ReadInitialized
  <2>1. /\ link = "open" /\ inbox # <<>>
        /\ inbox = <<"initialized">> => "initialized" = "initialized" /\ inbox' = <<>>
        /\ inbox = <<"ack", "ready">> => "initialized" = "ack" /\ inbox' = <<"ready">>
        /\ inbox = <<"ready">> => "initialized" = "ready" /\ inbox' = <<>>
    BY <1>7, ReadsFirst DEF ReadInitialized
  <2>2. QED
    BY <1>7, <2>1 DEF ClientInv, ReadInitialized, Progress
<1>8. CASE ReadAck
  <2>1. /\ link = "open" /\ inbox # <<>>
        /\ inbox = <<"initialized">> => "ack" = "initialized" /\ inbox' = <<>>
        /\ inbox = <<"ack", "ready">> => "ack" = "ack" /\ inbox' = <<"ready">>
        /\ inbox = <<"ready">> => "ack" = "ready" /\ inbox' = <<>>
    BY <1>8, ReadsFirst DEF ReadAck
  <2>2. QED
    BY <1>8, <2>1 DEF ClientInv, ReadAck, Progress
<1>9. CASE ReadReady
  <2>1. /\ link = "open" /\ inbox # <<>>
        /\ inbox = <<"initialized">> => "ready" = "initialized" /\ inbox' = <<>>
        /\ inbox = <<"ack", "ready">> => "ready" = "ack" /\ inbox' = <<"ready">>
        /\ inbox = <<"ready">> => "ready" = "ready" /\ inbox' = <<>>
    BY <1>9, ReadsFirst DEF ReadReady
  <2>2. QED
    BY <1>9, <2>1 DEF ClientInv, ReadReady, Progress
<1>10. CASE HandlerReturns
  BY <1>10 DEF ClientInv, HandlerReturns, Progress, Given
<1>11. CASE HostIsReady
  BY <1>11 DEF ClientInv, HostIsReady, HandOver, Progress, Given
<1>12. CASE UNCHANGED vars
  BY <1>12 DEF vars, ClientInv, Progress, Given
<1>13. QED
  BY <1>1, <1>3, <1>4, <1>5, <1>6, <1>7, <1>8, <1>9, <1>10, <1>11, <1>12
  DEF Next, HostStep, Step

\* The persistent router is given a socket only when the host's persistent router
\* is there and the socket was not lost meanwhile (_internalInitializeMethods), and
\* after stop() there is neither a socket nor another attempt.
THEOREM HandOversAreServed == Spec => []HandedOverIsServed
<1>1. ClientInv => HandedOverIsServed
  BY DEF ClientInv, Progress, Given, HandedOverIsServed
<1>2. QED
  BY <1>1, InitClient, StepClient, PTL DEF Spec

=============================================================================
