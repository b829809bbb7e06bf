--------------------------- MODULE MCRemoteServer ---------------------------
(* Instances of RemoteServer for TLC.                                      *)
EXTENDS RemoteServer

CONSTANTS a1, a2, h1, h2

\* Each attachment reaches a host of its own.
OwnHosts == [a \in Attachments |-> IF a = a1 THEN h1 ELSE h2]

=============================================================================
