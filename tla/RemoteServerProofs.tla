------------------------- MODULE RemoteServerProofs -------------------------
(* RemoteServer: what the persistent router serves is listed, an            *)
(* unregistered attachment is closed, and no message of the host falls      *)
(* between the two routers.                                                 *)
EXTENDS RemoteServer, TLAPS

\* The attachments reach different hosts; with a shared host the entry in
\* "clients" is shared as well.
OwnHost == \A a, b \in Attachments : HostOf[a] = HostOf[b] => a = b

ServerTypes ==
  /\ running \in BOOLEAN
  /\ on \subseteq Attachments
  /\ loop \in [Attachments -> {"new", "open", "sleeping", "done"}]
  /\ try \in [Attachments -> 0 .. MaxTries]
  /\ link \in [Attachments -> {"none", "open", "closed"}]
  /\ router \in [Attachments -> {"none", "temporary", "persistent"}]
  /\ handler \in [Attachments -> {"none", "sending", "returning"}]
  /\ host \in [Attachments -> {"asking", "finalizing", "admitted", "synced", "ready"}]
  /\ DOMAIN inbox = Attachments
  /\ clients \in [Hosts -> Sockets \cup {None}]
  /\ last \in [Attachments -> Sockets \cup {None}]

\* The ACK was read, and the synchronisation too or not.
Synced(a) ==
  \/ host[a] = "admitted" /\ inbox[a] = <<"sync">>
  \/ host[a] = "synced" /\ inbox[a] = <<>>

\* How far the handshake of a on its open socket is, message by message.
Progress(a) ==
  \/ host[a] = "asking" /\ inbox[a] = <<>> /\ handler[a] = "none"
     /\ router[a] = "temporary"
  \/ host[a] = "finalizing" /\ inbox[a] = <<"initialized">> /\ handler[a] = "none"
     /\ router[a] = "temporary"
  \/ host[a] = "finalizing" /\ inbox[a] = <<>> /\ handler[a] = "sending"
     /\ router[a] = "temporary"
  \/ host[a] = "admitted" /\ inbox[a] = <<"ack", "sync">> /\ handler[a] = "sending"
     /\ router[a] = "temporary"
  \/ Synced(a) /\ handler[a] = "returning" /\ router[a] = "temporary"
  \/ Synced(a) /\ handler[a] = "none" /\ router[a] = "persistent"
  \/ host[a] = "ready" /\ inbox[a] \in {<<"call">>, <<>>} /\ handler[a] = "none"
     /\ router[a] = "persistent"

\* Where an attachment is: with an open socket, between two attempts, or done.
Stands(a) ==
  /\ try[a] = 0 => link[a] = "none" /\ handler[a] = "none" /\ a \notin on
  /\ IF link[a] = "open"
     THEN running /\ a \in on /\ loop[a] = "open" /\ Progress(a)
     ELSE inbox[a] = <<>> /\ router[a] = "none" /\ handler[a] \in {"none", "returning"}
          /\ loop[a] # "open"
  /\ loop[a] = "sleeping" => running /\ a \in on
  /\ last[a] # None => last[a] \in {a} \X (1 .. MaxTries)

\* A socket that is served is the one of its attachment.
Listed(a) == router[a] = "persistent" => clients[HostOf[a]] = Socket(a) /\ Socket(a) \in served

RemoteInv == ServerTypes /\ \A a \in Attachments : Stands(a) /\ (OwnHost => Listed(a))

LEMMA InitRemote == Init => RemoteInv
<1> SUFFICES ASSUME Init PROVE RemoteInv
  OBVIOUS
<1>1. ServerTypes
  BY RemoteServerAssumption DEF Init, ServerTypes
<1>2. \A a \in Attachments : Stands(a) /\ Listed(a)
  BY DEF Init, Stands, Listed
<1>3. QED
  BY <1>1, <1>2 DEF RemoteInv

\* An attachment that a step does not concern stays as it is.
Untouched(b) ==
  /\ UNCHANGED <<loop[b], try[b], link[b], router[b], handler[b], host[b], inbox[b], last[b]>>
  /\ UNCHANGED running /\ (b \in on <=> b \in on')

LEMMA UntouchedStands ==
  ASSUME NEW b \in Attachments, Stands(b), Untouched(b)
  PROVE  /\ Stands(b)'
         /\ /\ clients'[HostOf[b]] = clients[HostOf[b]]
            /\ Socket(b) \in served => Socket(b) \in served'
            /\ Listed(b)
            => Listed(b)'
BY DEF Stands, Progress, Synced, Listed, Untouched, Socket

\* A new socket.
LEMMA OpenStep ==
  ASSUME RemoteInv, NEW a \in Attachments, Open(a), Quiet, running, link[a] # "open",
         a \in on', on' \in {on, on \cup {a}}
  PROVE  RemoteInv'
<1>1. /\ try' = [try EXCEPT ![a] = try[a] + 1] /\ try[a] < MaxTries
      /\ loop' = [loop EXCEPT ![a] = "open"] /\ link' = [link EXCEPT ![a] = "open"]
      /\ router' = [router EXCEPT ![a] = "temporary"] /\ host' = [host EXCEPT ![a] = "asking"]
      /\ inbox' = [inbox EXCEPT ![a] = <<>>]
      /\ UNCHANGED <<running, handler, clients, last, served>>
  BY DEF Open
<1>2. try[a] \in 0 .. MaxTries /\ try[a] + 1 \in 1 .. MaxTries
  BY <1>1, RemoteServerAssumption DEF RemoteInv, ServerTypes
<1>3. ServerTypes'
  BY <1>1, <1>2 DEF RemoteInv, ServerTypes
<1>4. handler[a] = "none"
  BY DEF RemoteInv, Stands, Quiet
<1>5. Stands(a)' /\ Listed(a)'
  <2>1. /\ try'[a] = try[a] + 1 /\ loop'[a] = "open" /\ link'[a] = "open"
        /\ router'[a] = "temporary" /\ host'[a] = "asking" /\ inbox'[a] = <<>>
    BY <1>1 DEF RemoteInv, ServerTypes
  <2>2. last[a] # None => last[a] \in {a} \X (1 .. MaxTries)
    BY DEF RemoteInv, Stands
  <2>3. try'[a] # 0
    BY <1>2, <2>1
  <2>4. QED
    BY <1>1, <1>4, <2>1, <2>2, <2>3 DEF Stands, Progress, Synced, Listed
<1>6. ASSUME NEW b \in Attachments, b # a PROVE Stands(b)' /\ (OwnHost => Listed(b)')
  <2>1. Untouched(b)
    BY <1>1, <1>6 DEF RemoteInv, ServerTypes, Untouched, Socket
  <2>2. QED
    BY <1>1, <2>1, UntouchedStands DEF RemoteInv
<1>7. QED
  BY <1>3, <1>5, <1>6 DEF RemoteInv

\* The close of sockets, the handshakes of which are given up.
LEMMA ClosedStep ==
  ASSUME RemoteInv, NEW S \in SUBSET Attachments, NEW gone, NEW attached, NEW up \in BOOLEAN,
         Closed(S, gone, attached, up), UNCHANGED <<try, host, last>>,
         on' = attached, running' = up, attached \subseteq on, up => running,
         clients' \in [Hosts -> Sockets \cup {None}],
         \A a \in S : try[a] # 0,
         \A b \in Attachments \ S : link[b] = "open" =>
           /\ up /\ b \in attached /\ Socket(b) \notin gone
           /\ OwnHost => clients'[HostOf[b]] = clients[HostOf[b]]
  PROVE  RemoteInv'
<1>1. /\ \A a \in S : /\ link'[a] = "closed" /\ router'[a] = "none" /\ inbox'[a] = <<>>
                      /\ handler'[a] = IF handler[a] = "sending" THEN "returning" ELSE handler[a]
      /\ \A a \in Attachments \ S : /\ link'[a] = link[a] /\ router'[a] = router[a]
                                    /\ inbox'[a] = inbox[a] /\ handler'[a] = handler[a]
      /\ \A a \in Attachments :
           loop'[a] = IF a \in S \/ loop[a] = "sleeping"
                      THEN IF GoesOn(a, attached, up) THEN "sleeping" ELSE "done"
                      ELSE loop[a]
      /\ served' = served \ gone
  BY DEF Closed
<1>2. ServerTypes'
  BY DEF Closed, RemoteInv, ServerTypes
<1>3. ASSUME NEW a \in S PROVE Stands(a)' /\ Listed(a)'
  <2>1. a \in Attachments /\ handler[a] \in {"none", "sending", "returning"}
    BY DEF RemoteInv, ServerTypes
  <2>2. last[a] # None => last[a] \in {a} \X (1 .. MaxTries)
    BY <2>1 DEF RemoteInv, Stands
  <2>3. QED
    BY <1>1, <2>1, <2>2 DEF Stands, Listed, GoesOn
<1>4. ASSUME NEW b \in Attachments \ S PROVE Stands(b)' /\ (OwnHost => Listed(b)')
  <2>1. Stands(b) /\ (OwnHost => Listed(b))
    BY DEF RemoteInv
  <2>2. CASE link[b] = "open"
    <3>1. Stands(b)'
      BY <1>1, <2>1, <2>2 DEF Stands, Progress, Synced
    <3>2. OwnHost => Listed(b)'
      BY <1>1, <2>1, <2>2 DEF Listed, Socket
    <3>3. QED
      BY <3>1, <3>2
  <2>3. CASE link[b] # "open"
    BY <1>1, <2>1, <2>3 DEF Stands, Listed, GoesOn
  <2>4. QED
    BY <2>2, <2>3
<1>5. QED
  BY <1>2, <1>3, <1>4 DEF RemoteInv

\* What one attachment loses is not what another one serves.
LEMMA OtherSockets ==
  ASSUME RemoteInv, NEW a \in Attachments, NEW b \in Attachments \ {a}, link[b] = "open"
  PROVE  Socket(b) \notin Attached(a)
<1>1. Socket(b) \in Sockets /\ Socket(b) # Socket(a)
  BY DEF RemoteInv, ServerTypes, Stands, Sockets, Socket
<1>2. Socket(b) # last[a]
  <2>1. last[a] # None => last[a] \in {a} \X (1 .. MaxTries)
    BY DEF RemoteInv, Stands
  <2>2. QED
    BY <1>1, <2>1, RemoteServerAssumption DEF Socket
<1>3. QED
  BY <1>1, <1>2 DEF Attached

LEMMA LoseStep ==
  ASSUME RemoteInv, NEW a \in Attachments, Lose(a)
  PROVE  RemoteInv'
<1>1. /\ Closed({a}, Attached(a), on, running) /\ clients' = Forgotten({a})
      /\ UNCHANGED <<running, on, try, host, last>> /\ link[a] = "open"
  BY DEF Lose
<1>2. clients' \in [Hosts -> Sockets \cup {None}]
  BY <1>1 DEF Forgotten, RemoteInv, ServerTypes
<1>3. running /\ try[a] # 0
  BY <1>1 DEF RemoteInv, Stands
<1>4. ASSUME NEW b \in Attachments \ {a}, link[b] = "open"
      PROVE  /\ b \in on /\ Socket(b) \notin Attached(a)
             /\ OwnHost => clients'[HostOf[b]] = clients[HostOf[b]]
  <2>1. b \in on
    BY <1>4 DEF RemoteInv, Stands
  <2>2. HostOf[b] \in Hosts
    BY RemoteServerAssumption
  <2>3. OwnHost => HostOf[a] # HostOf[b]
    BY DEF OwnHost
  <2>4. OwnHost => clients'[HostOf[b]] = clients[HostOf[b]]
    BY <1>1, <2>2, <2>3 DEF Forgotten
  <2>5. QED
    BY <1>4, <2>1, <2>4, OtherSockets
<1>5. running \in BOOLEAN
  BY DEF RemoteInv, ServerTypes
<1>6. /\ \A b \in {a} : try[b] # 0
      /\ \A b \in Attachments \ {a} : link[b] = "open" =>
           /\ running /\ b \in on /\ Socket(b) \notin Attached(a)
           /\ OwnHost => clients'[HostOf[b]] = clients[HostOf[b]]
  BY <1>3, <1>4
<1>7. {a} \in SUBSET Attachments /\ on \subseteq on /\ on' = on /\ running' = running
  BY <1>1
<1>8. QED
  BY <1>1, <1>2, <1>5, <1>6, <1>7, ClosedStep

LEMMA UnregisterStep ==
  ASSUME RemoteInv, NEW a \in Attachments, Unregister(a)
  PROVE  RemoteInv'
<1>1. /\ Closed({a}, Attached(a), on \ {a}, running) /\ clients' = Forgotten({a} \cap OpenOnes)
      /\ a \in on /\ on' = on \ {a} /\ UNCHANGED <<running, try, host, last>>
  BY DEF Unregister
<1>2. clients' \in [Hosts -> Sockets \cup {None}]
  BY <1>1 DEF Forgotten, RemoteInv, ServerTypes
<1>3. try[a] # 0 /\ running \in BOOLEAN
  BY <1>1 DEF RemoteInv, Stands, ServerTypes
<1>4. ASSUME NEW b \in Attachments \ {a}, link[b] = "open"
      PROVE  /\ running /\ b \in on \ {a} /\ Socket(b) \notin Attached(a)
             /\ OwnHost => clients'[HostOf[b]] = clients[HostOf[b]]
  <2>1. b \in on /\ running
    BY <1>4 DEF RemoteInv, Stands
  <2>2. HostOf[b] \in Hosts
    BY RemoteServerAssumption
  <2>3. OwnHost => HostOf[a] # HostOf[b]
    BY DEF OwnHost
  <2>4. OwnHost => clients'[HostOf[b]] = clients[HostOf[b]]
    BY <1>1, <2>2, <2>3 DEF Forgotten
  <2>5. QED
    BY <1>4, <2>1, <2>4, OtherSockets
<1>5. /\ \A b \in {a} : try[b] # 0
      /\ \A b \in Attachments \ {a} : link[b] = "open" =>
           /\ running /\ b \in on \ {a} /\ Socket(b) \notin Attached(a)
           /\ OwnHost => clients'[HostOf[b]] = clients[HostOf[b]]
  BY <1>3, <1>4
<1>6. {a} \in SUBSET Attachments /\ on \ {a} \subseteq on /\ running' = running
  BY <1>1
<1>7. QED
  BY <1>1, <1>2, <1>3, <1>5, <1>6, ClosedStep

LEMMA StopStep ==
  ASSUME RemoteInv, Stop
  PROVE  RemoteInv'
<1>1. /\ Closed(OpenOnes, served, {}, FALSE) /\ clients' = [h \in Hosts |-> None]
      /\ on' = {} /\ running' = FALSE /\ UNCHANGED <<try, host, last>>
  BY DEF Stop
<1>2. clients' \in [Hosts -> Sockets \cup {None}]
  BY <1>1
<1>3. \A a \in OpenOnes : try[a] # 0
  BY DEF OpenOnes, RemoteInv, Stands
<1>4. OpenOnes \in SUBSET Attachments /\ \A b \in Attachments \ OpenOnes : link[b] # "open"
  BY DEF OpenOnes
<1>5. PICK up \in BOOLEAN : up = FALSE
  OBVIOUS
<1>6. PICK none : none = {}
  OBVIOUS
<1>7. /\ Closed(OpenOnes, served, none, up) /\ on' = none /\ running' = up
      /\ none \subseteq on /\ (up => running)
  BY <1>1, <1>5, <1>6
<1>8. \A b \in Attachments \ OpenOnes : link[b] = "open" =>
        /\ up /\ b \in none /\ Socket(b) \notin served
        /\ OwnHost => clients'[HostOf[b]] = clients[HostOf[b]]
  BY <1>4
<1>9. QED
  BY <1>1, <1>2, <1>3, <1>4, <1>7, <1>8, ClosedStep

LEMMA AttachOrRetry ==
  ASSUME RemoteInv, NEW a \in Attachments, AttachClient(a) \/ Retry(a)
  PROVE  RemoteInv'
<1>1. CASE AttachClient(a)
  <2>1. Open(a) /\ Quiet /\ running /\ loop[a] = "new" /\ on' = on \cup {a}
    BY <1>1 DEF AttachClient
  <2>2. link[a] # "open"
    BY <2>1 DEF RemoteInv, Stands
  <2>3. QED
    BY <2>1, <2>2, OpenStep
<1>2. CASE Retry(a)
  <2>1. Open(a) /\ Quiet /\ loop[a] = "sleeping" /\ on' = on
    BY <1>2 DEF Retry
  <2>2. running /\ a \in on /\ link[a] # "open"
    BY <2>1 DEF RemoteInv, Stands
  <2>3. QED
    BY <2>1, <2>2, OpenStep
<1>3. QED
  BY <1>1, <1>2

\* A step that concerns the socket of one attachment only.
LEMMA OneSocketMoves ==
  ASSUME RemoteInv, NEW a \in Attachments, ServerTypes', Stands(a)', Listed(a) => Listed(a)',
         UNCHANGED <<running, on, loop, try, link, router, clients, last, served>>,
         \A b \in Attachments \ {a} :
           UNCHANGED <<handler[b], host[b], inbox[b]>>
  PROVE  RemoteInv'
<1>1. ASSUME NEW b \in Attachments \ {a} PROVE Stands(b)' /\ (OwnHost => Listed(b)')
  <2>1. Untouched(b)
    BY DEF Untouched
  <2>2. QED
    BY <2>1, UntouchedStands DEF RemoteInv
<1>2. Stands(a)' /\ (OwnHost => Listed(a)')
  BY DEF RemoteInv
<1>3. QED
  BY <1>1, <1>2 DEF RemoteInv

LEMMA HostMoves ==
  ASSUME RemoteInv, NEW a \in Attachments, HostStep(a)
  PROVE  RemoteInv'
<1>1. /\ UNCHANGED <<running, on, loop, try, link, router, handler, clients, last, served, misread>>
      /\ link[a] = "open" /\ DOMAIN host = Attachments /\ DOMAIN inbox = Attachments
      /\ Stands(a) /\ Progress(a)
  BY DEF HostStep, HostFinalizes, HostAdmits, HostCalls, RemoteInv, ServerTypes, Stands
<1>2. CASE HostFinalizes(a)
  <2>1. inbox[a] = <<>> /\ inbox'[a] = Append(inbox[a], "initialized")
    BY <1>1, <1>2 DEF HostFinalizes, Progress, Synced
  <2>2. inbox'[a] = <<"initialized">>
    BY <2>1
  <2>3. host[a] = "asking" /\ host'[a] = "finalizing"
    BY <1>1, <1>2 DEF HostFinalizes
  <2>4. ServerTypes' /\ Stands(a)' /\ (Listed(a) => Listed(a)')
    <3>1. ServerTypes'
      BY <1>1, <1>2 DEF HostFinalizes, RemoteInv, ServerTypes
    <3>2. Stands(a)'
      BY <1>1, <2>2, <2>3 DEF Stands, Progress, Synced
    <3>3. QED
      BY <1>1, <3>1, <3>2 DEF Listed, Socket
  <2>5. QED
    BY <1>1, <1>2, <2>4, OneSocketMoves DEF HostFinalizes
<1>3. CASE HostAdmits(a)
  <2>1. inbox[a] = <<>> /\ inbox'[a] = inbox[a] \o <<"ack", "sync">>
    BY <1>1, <1>3 DEF HostAdmits, Progress, Synced
  <2>2. inbox'[a] = <<"ack", "sync">>
    BY <2>1
  <2>3. handler[a] = "sending" /\ host'[a] = "admitted"
    BY <1>1, <1>3 DEF HostAdmits
  <2>4. ServerTypes' /\ Stands(a)' /\ (Listed(a) => Listed(a)')
    <3>1. ServerTypes'
      BY <1>1, <1>3 DEF HostAdmits, RemoteInv, ServerTypes
    <3>2. Stands(a)'
      BY <1>1, <2>2, <2>3 DEF Stands, Progress, Synced
    <3>3. QED
      BY <1>1, <3>1, <3>2 DEF Listed, Socket
  <2>5. QED
    BY <1>1, <1>3, <2>4, OneSocketMoves DEF HostAdmits
<1>4. CASE HostCalls(a)
  <2>1. handler[a] # "returning" /\ host[a] = "synced" /\ host'[a] = "ready"
        /\ inbox'[a] = Append(inbox[a], "call")
    BY <1>1, <1>4 DEF HostCalls, Quiet
  <2>2. inbox[a] = <<>> /\ handler[a] = "none" /\ router[a] = "persistent"
    BY <1>1, <2>1 DEF Progress, Synced
  <2>3. inbox'[a] = <<"call">>
    BY <2>1, <2>2
  <2>4. ServerTypes' /\ Stands(a)' /\ (Listed(a) => Listed(a)')
    <3>1. ServerTypes'
      BY <1>1, <1>4 DEF HostCalls, RemoteInv, ServerTypes
    <3>2. Stands(a)'
      BY <1>1, <2>1, <2>2, <2>3 DEF Stands, Progress
    <3>3. QED
      BY <1>1, <3>1, <3>2 DEF Listed, Socket
  <2>5. QED
    BY <1>1, <1>4, <2>4, OneSocketMoves DEF HostCalls
<1>5. QED
  BY <1>2, <1>3, <1>4 DEF HostStep

\* The messages of an open socket, in their order.
LEMMA ReadsFirst ==
  ASSUME RemoteInv, NEW a \in Attachments, NEW m, Reads(a, m)
  PROVE  /\ link[a] = "open" /\ Progress(a) /\ inbox[a] # <<>>
         /\ inbox[a] = <<"initialized">> => m = "initialized" /\ inbox'[a] = <<>>
         /\ inbox[a] = <<"ack", "sync">> => m = "ack" /\ inbox'[a] = <<"sync">>
         /\ inbox[a] = <<"sync">> => m = "sync" /\ inbox'[a] = <<>>
         /\ inbox[a] = <<"call">> => m = "call" /\ inbox'[a] = <<>>
         /\ \A b \in Attachments \ {a} : inbox'[b] = inbox[b]
         /\ DOMAIN inbox' = Attachments
<1>1. /\ inbox[a] # <<>> /\ m = Head(inbox[a]) /\ inbox'[a] = Tail(inbox[a])
      /\ \A b \in Attachments \ {a} : inbox'[b] = inbox[b]
      /\ DOMAIN inbox' = Attachments
  BY DEF Reads, RemoteInv, ServerTypes
<1>2. link[a] = "open" /\ Progress(a)
  BY <1>1 DEF RemoteInv, Stands
<1>3. /\ Head(<<"initialized">>) = "initialized" /\ Tail(<<"initialized">>) = <<>>
      /\ Head(<<"sync">>) = "sync" /\ Tail(<<"sync">>) = <<>>
      /\ Head(<<"call">>) = "call" /\ Tail(<<"call">>) = <<>>
  OBVIOUS
<1>4. Head(<<"ack", "sync">>) = "ack" /\ Tail(<<"ack", "sync">>) = <<"sync">>
  OBVIOUS
<1>5. QED
  BY <1>1, <1>2, <1>3, <1>4, Zenon

LEMMA MessageStep ==
  ASSUME RemoteInv, NEW a \in Attachments,
         ReadInitialized(a) \/ ReadAck(a) \/ ReadSync(a) \/ ReadCall(a)
  PROVE  RemoteInv'
<1>1. /\ UNCHANGED <<running, on, loop, try, link, router, clients, last, served>>
      /\ \A b \in Attachments \ {a} : host'[b] = host[b]
  BY DEF ReadInitialized, ReadAck, ReadSync, ReadCall, ReadByListener, RemoteInv, ServerTypes
<1>2. Stands(a) /\ (link[a] = "open" /\ Progress(a)) /\ DOMAIN handler = Attachments
  BY ReadsFirst DEF RemoteInv, ServerTypes, Stands, ReadInitialized, ReadAck, ReadSync,
     ReadCall, ReadByListener
<1>3. Listed(a) => Listed(a)'
  BY <1>1 DEF Listed, Socket
<1>4. ASSUME handler' \in [Attachments -> {"none", "sending", "returning"}], DOMAIN inbox' = Attachments,
             host' = host \/ host' = [host EXCEPT ![a] = "synced"]
      PROVE  ServerTypes'
  BY <1>1, <1>4 DEF RemoteInv, ServerTypes
<1>5. CASE ReadInitialized(a)
  <2>1. Reads(a, "initialized") /\ handler' = [handler EXCEPT ![a] = "sending"] /\ host' = host
    BY <1>5 DEF ReadInitialized
  <2>2. /\ inbox[a] # <<>>
        /\ inbox[a] = <<"initialized">> => inbox'[a] = <<>>
        /\ inbox[a] # <<"ack", "sync">> /\ inbox[a] # <<"sync">> /\ inbox[a] # <<"call">>
        /\ \A b \in Attachments \ {a} : inbox'[b] = inbox[b]
        /\ DOMAIN inbox' = Attachments
    BY <2>1, ReadsFirst
  <2>3. Stands(a)'
    BY <1>1, <1>2, <2>1, <2>2 DEF Stands, Progress, Synced
  <2>4. ServerTypes'
    BY <1>4, <2>1, <2>2 DEF RemoteInv, ServerTypes
  <2>5. QED
    BY <1>1, <1>3, <2>1, <2>2, <2>3, <2>4, OneSocketMoves
<1>6. CASE ReadAck(a)
  <2>1. Reads(a, "ack") /\ handler' = [handler EXCEPT ![a] = "returning"] /\ host' = host
    BY <1>6 DEF ReadAck
  <2>2. /\ inbox[a] # <<>>
        /\ inbox[a] = <<"ack", "sync">> => inbox'[a] = <<"sync">>
        /\ inbox[a] # <<"initialized">> /\ inbox[a] # <<"sync">> /\ inbox[a] # <<"call">>
        /\ \A b \in Attachments \ {a} : inbox'[b] = inbox[b]
        /\ DOMAIN inbox' = Attachments
    BY <2>1, ReadsFirst
  <2>3. Stands(a)'
    BY <1>1, <1>2, <2>1, <2>2 DEF Stands, Progress, Synced
  <2>4. ServerTypes'
    BY <1>4, <2>1, <2>2 DEF RemoteInv, ServerTypes
  <2>5. QED
    BY <1>1, <1>3, <2>1, <2>2, <2>3, <2>4, OneSocketMoves
<1>7. CASE ReadSync(a)
  <2>1. /\ Reads(a, "sync") /\ handler' = handler
        /\ host' = [host EXCEPT ![a] = "synced"] /\ DOMAIN host = Attachments
    BY <1>7 DEF ReadSync, ReadByListener, RemoteInv, ServerTypes
  <2>2. /\ inbox[a] # <<>>
        /\ inbox[a] = <<"sync">> => inbox'[a] = <<>>
        /\ inbox[a] # <<"initialized">> /\ inbox[a] # <<"ack", "sync">> /\ inbox[a] # <<"call">>
        /\ \A b \in Attachments \ {a} : inbox'[b] = inbox[b]
        /\ DOMAIN inbox' = Attachments
    BY <2>1, ReadsFirst
  <2>3. Stands(a)'
    BY <1>1, <1>2, <2>1, <2>2 DEF Stands, Progress, Synced
  <2>4. ServerTypes'
    BY <1>4, <2>1, <2>2 DEF RemoteInv, ServerTypes
  <2>5. QED
    BY <1>1, <1>3, <2>1, <2>2, <2>3, <2>4, OneSocketMoves
<1>8. CASE ReadCall(a)
  <2>1. Reads(a, "call") /\ handler' = handler /\ host' = host
    BY <1>8 DEF ReadCall, ReadByListener
  <2>2. /\ inbox[a] # <<>>
        /\ inbox[a] = <<"call">> => inbox'[a] = <<>>
        /\ inbox[a] # <<"initialized">> /\ inbox[a] # <<"ack", "sync">> /\ inbox[a] # <<"sync">>
        /\ \A b \in Attachments \ {a} : inbox'[b] = inbox[b]
        /\ DOMAIN inbox' = Attachments
    BY <2>1, ReadsFirst
  <2>3. Stands(a)'
    BY <1>1, <1>2, <2>1, <2>2 DEF Stands, Progress, Synced
  <2>4. ServerTypes'
    BY <1>4, <2>1, <2>2 DEF RemoteInv, ServerTypes
  <2>5. QED
    BY <1>1, <1>3, <2>1, <2>2, <2>3, <2>4, OneSocketMoves
<1>9. QED
  BY <1>5, <1>6, <1>7, <1>8

\* The hand-over: when the socket was lost meanwhile nobody reads it, but it is listed.
LEMMA HandOverStep ==
  ASSUME RemoteInv, NEW a \in Attachments, HandlerReturns(a)
  PROVE  RemoteInv'
<1>1. /\ handler[a] = "returning" /\ handler' = [handler EXCEPT ![a] = "none"]
      /\ UNCHANGED <<running, on, loop, try, link, host, inbox>>
  BY DEF HandlerReturns
<1>2. Stands(a) /\ try[a] # 0 /\ Socket(a) \in Sockets
  BY <1>1 DEF RemoteInv, ServerTypes, Stands, Socket, Sockets
<1>3. CASE running
  <2>1. /\ router' = [router EXCEPT ![a] = HandOver(a)] /\ served' = served \cup {Socket(a)}
        /\ last' = [last EXCEPT ![a] = Socket(a)]
        /\ clients' = [clients EXCEPT ![HostOf[a]] = Socket(a)]
    BY <1>3 DEF HandlerReturns
  <2>2. HostOf[a] \in Hosts /\ Socket(a)' = Socket(a)
    BY <1>1, RemoteServerAssumption DEF Socket
  <2>3. /\ handler'[a] = "none" /\ router'[a] = HandOver(a) /\ last'[a] = Socket(a)
        /\ clients'[HostOf[a]] = Socket(a)
    BY <1>1, <2>1, <2>2 DEF RemoteInv, ServerTypes
  <2>4. ServerTypes'
    <3>1. HandOver(a) \in {"none", "persistent"}
      BY DEF HandOver
    <3>2. QED
      BY <1>1, <1>2, <2>1, <3>1 DEF RemoteInv, ServerTypes
  <2>5. Stands(a)'
    <3>1. Socket(a) \in {a} \X (1 .. MaxTries)
      BY <1>2 DEF Socket, Sockets
    <3>2. QED
      BY <1>1, <1>2, <2>3, <3>1 DEF Stands, Progress, Synced, HandOver
  <2>6. Listed(a)'
    BY <2>1, <2>2, <2>3 DEF Listed
  <2>7. ASSUME NEW b \in Attachments \ {a} PROVE Stands(b)' /\ (OwnHost => Listed(b)')
    <3>1. Untouched(b)
      BY <1>1, <2>1 DEF RemoteInv, ServerTypes, Untouched
    <3>2. OwnHost => clients'[HostOf[b]] = clients[HostOf[b]]
      <4>1. OwnHost => HostOf[b] # HostOf[a]
        BY DEF OwnHost
      <4>2. HostOf[b] \in Hosts /\ DOMAIN clients = Hosts
        BY RemoteServerAssumption DEF RemoteInv, ServerTypes
      <4>3. QED
        BY <2>1, <4>1, <4>2
    <3>3. QED
      BY <2>1, <3>1, <3>2, UntouchedStands DEF RemoteInv
  <2>8. QED
    BY <2>4, <2>5, <2>6, <2>7 DEF RemoteInv
<1>4. CASE ~running
  <2>1. UNCHANGED <<router, served, last, clients>>
    BY <1>4 DEF HandlerReturns
  <2>2. link[a] # "open"
    BY <1>2, <1>4 DEF Stands
  <2>3. handler'[a] = "none" /\ ServerTypes'
    BY <1>1, <2>1 DEF RemoteInv, ServerTypes
  <2>4. Stands(a)' /\ Listed(a)'
    BY <1>1, <1>2, <2>1, <2>2, <2>3 DEF Stands, Listed
  <2>5. ASSUME NEW b \in Attachments \ {a} PROVE Stands(b)' /\ (OwnHost => Listed(b)')
    <3>1. Untouched(b)
      BY <1>1, <2>1 DEF RemoteInv, ServerTypes, Untouched
    <3>2. QED
      BY <2>1, <3>1, UntouchedStands DEF RemoteInv
  <2>6. QED
    BY <2>3, <2>4, <2>5 DEF RemoteInv
<1>5. QED
  BY <1>3, <1>4

LEMMA StepRemote == RemoteInv /\ [Next]_vars => RemoteInv'
<1> SUFFICES ASSUME RemoteInv, [Next]_vars PROVE RemoteInv'
  OBVIOUS
<1>1. ASSUME NEW a \in Attachments,
             AttachClient(a) \/ Retry(a) \/ Lose(a) \/ Unregister(a) \/ HostStep(a) \/ Step(a)
      PROVE  RemoteInv'
  BY <1>1, AttachOrRetry, LoseStep, UnregisterStep, HostMoves, MessageStep, HandOverStep DEF Step
<1>2. CASE UNCHANGED vars
  <2>1. ServerTypes'
    BY <1>2 DEF vars, RemoteInv, ServerTypes
  <2>2. \A b \in Attachments : Untouched(b) /\ (Listed(b) => Listed(b)')
    BY <1>2 DEF vars, Untouched, Listed, Socket
  <2>3. QED
    BY <2>1, <2>2, UntouchedStands DEF RemoteInv
<1>3. QED
  BY <1>1, <1>2, StopStep DEF Next

THEOREM RemoteInvHolds == Spec => []RemoteInv
BY InitRemote, StepRemote, PTL DEF Spec

\* Whatever is lost before, during and after a hand-over, the connection that the
\* persistent router serves is the one "clients" lists for its host and the one
\* stop() closes, provided that no two attachments reach the same host.
THEOREM ServedAreListed ==
  ASSUME OwnHost
  PROVE  Spec => []ServedIsListed
<1>1. RemoteInv => ServedIsListed
  BY DEF RemoteInv, Listed, ServedIsListed
<1>2. QED
  BY <1>1, RemoteInvHolds, PTL

\* Once its unregister function was called, or stop(), an attachment has no open
\* socket and its loop has ended; this holds with shared hosts as well.
THEOREM UnregisteredAreClosed == Spec => []UnregisteredIsClosed
<1>1. RemoteInv => UnregisteredIsClosed
  BY DEF RemoteInv, ServerTypes, Stands, UnregisteredIsClosed
<1>2. QED
  BY <1>1, RemoteInvHolds, PTL

\* No message of the host falls between the two routers, whether the messages of
\* one chunk are dispatched in one turn or not: only a synchronisation that shares
\* its turn with the ACK is answered by the temporary router, and the socket is
\* handed over when that turn ends.
THEOREM CallsReachTheServer == Spec => []CallsReachServer
<1> DEFINE Excused == IF SameTurn THEN Sockets \X {"sync"} ELSE {}
<1>1. Init => misread \subseteq Excused
  BY DEF Init
<1>2. RemoteInv /\ misread \subseteq Excused /\ [Next]_vars => (misread \subseteq Excused)'
  <2> SUFFICES ASSUME RemoteInv, misread \subseteq Excused, [Next]_vars
               PROVE  misread' \subseteq Excused
    OBVIOUS
  <2>1. ASSUME NEW a \in Attachments, ReadSync(a) PROVE misread' \subseteq Excused
    <3>1. Reads(a, "sync") /\ misread' \in {misread, misread \cup {<<Socket(a), "sync">>}}
          /\ (router[a] = "persistent" => misread' = misread)
      BY <2>1 DEF ReadSync, ReadByListener
    <3>2. handler[a] = "returning" => SameTurn
      BY <3>1 DEF Reads
    <3>3. link[a] = "open" /\ (handler[a] # "returning" => router[a] = "persistent")
      BY <3>1, ReadsFirst DEF Progress
    <3>4. Socket(a) \in Sockets
      BY <3>3 DEF RemoteInv, ServerTypes, Stands, Sockets, Socket
    <3>5. QED
      BY <3>1, <3>2, <3>3, <3>4
  <2>2. ASSUME NEW a \in Attachments, ReadCall(a) PROVE misread' \subseteq Excused
    <3>1. Reads(a, "call")
      BY <2>2 DEF ReadCall, ReadByListener
    <3>2. router[a] = "persistent"
      BY <3>1, ReadsFirst DEF Progress, Synced
    <3>3. QED
      BY <2>2, <3>2 DEF ReadCall, ReadByListener
  <2>3. ASSUME NEW a \in Attachments, Step(a) PROVE misread' \subseteq Excused
    BY <2>1, <2>2, <2>3 DEF Step, ReadInitialized, ReadAck, HandlerReturns
  <2>4. QED
    BY <2>3 DEF Next, vars, AttachClient, Retry, Open, Lose, Unregister, Stop, HostStep,
                HostFinalizes, HostAdmits, HostCalls
<1>3. RemoteInv /\ misread \subseteq Excused => CallsReachServer
  BY DEF RemoteInv, Stands, Progress, Quiet, CallsReachServer
<1>4. QED
  BY <1>1, <1>2, <1>3, RemoteInvHolds, PTL DEF Spec

=============================================================================
