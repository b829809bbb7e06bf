----------------------------- MODULE CloseNotice -----------------------------
(***************************************************************************)
(* What listeners may expect of the close of a socket, whatever closes it  *)
(* and however often: the close comes once, a listener registered when it  *)
(* comes is told once unless it is removed before its turn, and no other   *)
(* listener is told.                                                       *)
(***************************************************************************)
CONSTANTS Sockets

VARIABLES
  closed,      \* the sockets whose listeners were or are being told
  registered,  \* socket -> its close listeners
  owed,        \* socket -> the listeners that wait for their turn
  heard        \* socket -> the listeners told so far, while others wait

vars == <<closed, registered, owed, heard>>

Init ==
  /\ closed = {}
  /\ registered = [s \in Sockets |-> {}]
  /\ owed = [s \in Sockets |-> {}]
  /\ heard = [s \in Sockets |-> {}]

\* Listeners come and go, on any socket and while others are being told; one
\* that goes does not hear, and one that comes late is not owed anything.
Change ==
  /\ UNCHANGED <<closed, heard>>
  /\ \A s \in Sockets : owed'[s] = owed[s] \cap registered'[s]

Close(s) ==
  /\ s \notin closed
  /\ closed' = closed \cup {s}
  /\ owed' = [owed EXCEPT ![s] = registered[s]]
  /\ UNCHANGED <<registered, heard>>

\* A listener is told; what it does may remove others that wait, and make
\* others listen.
Tell(s) == \E l \in owed[s] :
  /\ heard' = [heard EXCEPT ![s] = @ \cup {l}]
  /\ \A t \in Sockets :
       owed'[t] = owed[t] \cap (registered'[t] \ (IF t = s THEN {l} ELSE {}))
  /\ UNCHANGED closed

\* All were told.
Done(s) ==
  /\ owed[s] = {}
  /\ heard' = [heard EXCEPT ![s] = {}]
  /\ \A t \in Sockets : owed'[t] = owed[t] \cap registered'[t]
  /\ UNCHANGED closed

\* A new socket takes the name of one that is gone.
Renew(s) ==
  /\ owed[s] = {} /\ registered[s] = {}
  /\ closed' = closed \ {s}
  /\ \A t \in Sockets : owed'[t] = owed[t] \cap registered'[t]
  /\ UNCHANGED heard

Next == Change \/ \E s \in Sockets : Close(s) \/ Tell(s) \/ Done(s) \/ Renew(s)

Spec == Init /\ [][Next]_vars

=============================================================================
