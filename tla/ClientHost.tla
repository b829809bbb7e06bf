----------------------------- MODULE ClientHost -----------------------------
(***************************************************************************)
(* src/src/auth/ClientHost/ClientHost.ts: a host whose one router calls    *)
(* the server that connected last.  _lastSocket and _lastServerId name the *)
(* socket the router was given; _client.setServer forces the previous one  *)
(* closed.                                                                 *)
(***************************************************************************)
EXTENDS HostHandshake

VARIABLE lastSocket  \* _lastSocket; _lastServerId is the id of that socket

clientVars == <<handshakeVars, lastSocket>>

ClientTypeOK == HandshakeTypeOK /\ lastSocket \in Sockets \cup {None}

ClientInit == HandshakeInit /\ lastSocket = None

\* Mutant of ClientMustWait: no handshake waits.
ClientNeverWait(s) == FALSE

\* The last socket has the id of s and is open.
ClientMustWait(s) ==
  /\ lastSocket # None
  /\ IdOf[lastSocket] = IdOf[s]
  /\ link[lastSocket] = "open"

\* The socket is checked before the hook runs.
StartHook(s) ==
  \/ link[s] = "open" /\ GoTo(s, "hook")
  \/ link[s] # "open" /\ GiveUp(s) /\ UNCHANGED limiter

ClientIdentify(s) ==
  /\ stage[s] = "identity"
  /\ \/ /\ ClientMustWait(s)
        /\ stage' = [stage EXCEPT ![s] = "waiting"]
        /\ waitsFor' = [waitsFor EXCEPT ![s] = lastSocket]
        /\ UNCHANGED <<link, connectionCount, pendingSockets, limiter, stopped>>
     \/ ~ClientMustWait(s) /\ StartHook(s)
  /\ UNCHANGED lastSocket

ClientResume(s) ==
  /\ stage[s] = "resumed"
  /\ StartHook(s)
  /\ UNCHANGED lastSocket

\* Mutant of Replaced: the previous socket is left open.
NothingReplaced == {}

\* What setServer forces closed: the socket the router had.
Replaced == {lastSocket} \cap Alive

\* The peer confirmed: the router takes the socket, and forces the one it had
\* closed.
ClientAdmit(s) ==
  /\ stage[s] = "finalize"
  /\ ~stopped
  /\ link' = [t \in Sockets |-> IF t \in Replaced THEN "closed" ELSE link[t]]
  /\ connectionCount' = connectionCount - Cardinality(Replaced)
  /\ pendingSockets' = pendingSockets \ {s}
  /\ stage' = [StageAfterClose(Replaced) EXCEPT ![s] = "attached"]
  /\ lastSocket' = s
  /\ UNCHANGED <<waitsFor, limiter, stopped>>

\* setServer throws: the router is unregistered.
ClientAdmitFails(s) ==
  /\ stage[s] = "finalize"
  /\ stopped
  /\ stage' = [stage EXCEPT ![s] = "over"]
  /\ link' = [link EXCEPT ![s] = IF @ = "open" THEN "closing" ELSE @]
  /\ UNCHANGED <<waitsFor, connectionCount, pendingSockets, limiter, stopped, lastSocket>>

ClientDrop(s) ==
  /\ s \in Alive
  /\ CloseSocket(s)
  /\ UNCHANGED lastSocket

\* The last socket is closed, and forced closed by _client.unregister().
ClientStop ==
  /\ StopHost({lastSocket} \ {None})
  /\ lastSocket' = None

ClientNext ==
  \/ CommonNext /\ UNCHANGED lastSocket
  \/ \E s \in Sockets :
       ClientIdentify(s) \/ ClientResume(s) \/ ClientAdmit(s) \/ ClientAdmitFails(s) \/ ClientDrop(s)
  \/ ClientStop

ClientSpec == ClientInit /\ [][ClientNext]_clientVars

ClientFairness ==
  \A s \in Sockets :
    /\ WF_clientVars(Handshake(s) /\ UNCHANGED lastSocket)
    /\ WF_clientVars(ClientIdentify(s) \/ ClientResume(s) \/ ClientAdmit(s) \/ ClientAdmitFails(s))
    /\ WF_clientVars(link[s] = "closing" /\ ClientDrop(s))

ClientFairSpec == ClientSpec /\ ClientFairness

-----------------------------------------------------------------------------

\* A server that makes one attempt at a time waits until its older socket has
\* closed: the host never gives a live connection's place to a newer one of the
\* same id.
LiveServerKeepsItsPlace ==
  [][ /\ lastSocket # None
      /\ link[lastSocket] = "open"
      /\ IdOf[lastSocket] \in Orderly
      /\ lastSocket' \notin {None, lastSocket}
      => IdOf[lastSocket'] # IdOf[lastSocket] ]_clientVars

=============================================================================
