----------------------------- MODULE ServerHost -----------------------------
(***************************************************************************)
(* src/src/auth/ServerHost/ServerHost.ts: a host that serves many clients  *)
(* on one router and keeps the registered socket of each client id in the  *)
(* map "clients".                                                          *)
(***************************************************************************)
EXTENDS HostHandshake

VARIABLES
  clients,  \* client id -> its registered socket, or None
  beside    \* history: the ids a handshake of which went on while the registered
            \* socket was closing

registry == <<clients, beside>>
serverVars == <<handshakeVars, registry>>

ServerTypeOK ==
  /\ HandshakeTypeOK
  /\ clients \in [Ids -> Sockets \cup {None}]
  /\ beside \subseteq Ids

ServerInit == HandshakeInit /\ clients = [i \in Ids |-> None] /\ beside = {}

\* Mutant of ServerMustWait: no handshake waits.
ServerNeverWait(s) == FALSE

\* The registered socket of the id of s is there and open.
ServerMustWait(s) ==
  LET last == clients[IdOf[s]] IN last # None /\ link[last] = "open"

\* The registered socket of the id of s is there, but its close has begun.
FindsClosing(s) ==
  LET last == clients[IdOf[s]] IN last # None /\ link[last] # "open"

\* The id arrives.  An older socket that is not open is closed once more, which
\* changes nothing, and the handshake goes on beside it.
ServerIdentify(s) ==
  /\ stage[s] = "identity"
  /\ \/ /\ ServerMustWait(s)
        /\ stage' = [stage EXCEPT ![s] = "waiting"]
        /\ waitsFor' = [waitsFor EXCEPT ![s] = clients[IdOf[s]]]
        /\ UNCHANGED <<link, connectionCount, pendingSockets, limiter, stopped>>
     \/ /\ ~ServerMustWait(s)
        /\ GoTo(s, "hook")
  /\ beside' = IF FindsClosing(s) THEN beside \cup {IdOf[s]} ELSE beside
  /\ UNCHANGED clients

\* The awaited close event came.
ServerResume(s) ==
  /\ stage[s] = "resumed"
  /\ GoTo(s, "hook")
  /\ UNCHANGED registry

\* The peer confirmed: attachClient, and the socket is registered.
ServerAdmit(s) ==
  /\ stage[s] = "finalize"
  /\ ~stopped
  /\ stage' = [stage EXCEPT ![s] = "attached"]
  /\ pendingSockets' = pendingSockets \ {s}
  /\ clients' = [clients EXCEPT ![IdOf[s]] = s]
  /\ UNCHANGED <<link, waitsFor, connectionCount, limiter, stopped, beside>>

\* attachClient throws: the router is unregistered.  The temporary router is
\* detached already, so the socket is closed, but not forced.
ServerAdmitFails(s) ==
  /\ stage[s] = "finalize"
  /\ stopped
  /\ stage' = [stage EXCEPT ![s] = "over"]
  /\ link' = [link EXCEPT ![s] = IF @ = "open" THEN "closing" ELSE @]
  /\ UNCHANGED <<waitsFor, connectionCount, pendingSockets, limiter, stopped, registry>>

\* Mutant of AfterClose: nothing is deleted.
ClientsKept(s) == clients

\* The close listener of an attached socket deletes what its id is mapped to, be
\* it this socket or a newer one.
AfterClose(s) ==
  IF stage[s] = "attached" THEN [clients EXCEPT ![IdOf[s]] = None] ELSE clients

ServerDrop(s) ==
  /\ s \in Alive
  /\ CloseSocket(s)
  /\ clients' = AfterClose(s)
  /\ UNCHANGED beside

\* Mutant of Attached: only the registered sockets are closed.
Registered == {s \in Sockets : clients[IdOf[s]] = s}

\* The sockets of the attachments in unregisterFunctions.
Attached == {s \in Sockets : stage[s] = "attached"}

ServerStop ==
  /\ StopHost(Attached)
  /\ clients' = [i \in Ids |-> None]
  /\ UNCHANGED beside

ServerNext ==
  \/ CommonNext /\ UNCHANGED registry
  \/ \E s \in Sockets :
       ServerIdentify(s) \/ ServerResume(s) \/ ServerAdmit(s) \/ ServerAdmitFails(s) \/ ServerDrop(s)
  \/ ServerStop

ServerSpec == ServerInit /\ [][ServerNext]_serverVars

\* The peer answers or the request times out; a hook returns; a socket that
\* began to close ends with its close event (the library's close timeout).
ServerFairness ==
  \A s \in Sockets :
    /\ WF_serverVars(Handshake(s) /\ UNCHANGED registry)
    /\ WF_serverVars(ServerIdentify(s) \/ ServerResume(s) \/ ServerAdmit(s) \/ ServerAdmitFails(s))
    /\ WF_serverVars(link[s] = "closing" /\ ServerDrop(s))

ServerFairSpec == ServerSpec /\ ServerFairness

-----------------------------------------------------------------------------

\* "clients" tells the truth: a registered socket is attached and belongs to its
\* id, so that a handshake that waits for it waits for a socket that will close;
\* and every attached socket of a client that makes one attempt at a time is the
\* registered one, so that no two are served side by side.  Only a client that
\* once came back while its registered socket was closing is exempt: the host
\* does not wait then (184-188), and the older socket's close listener deletes
\* the entry of the newer one (235).
RegistryIsExact ==
  /\ \A i \in Ids :
       clients[i] # None => stage[clients[i]] = "attached" /\ IdOf[clients[i]] = i
  /\ \A s \in Sockets :
       stage[s] = "attached" /\ IdOf[s] \in Orderly \ beside => clients[IdOf[s]] = s

=============================================================================
