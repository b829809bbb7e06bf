---------------------------- MODULE MCClientHost ----------------------------
(* Instances of ClientHost for TLC.                                        *)
EXTENDS ClientHost

CONSTANTS i1, i2, k1, s1, s2, s3, s4

\* Two connections of either server.
TwoServers == [s \in Sockets |-> IF s \in {s3, s4} THEN i2 ELSE i1]

OneKey == [s \in Sockets |-> k1]

=============================================================================
