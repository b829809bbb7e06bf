---------------------------- MODULE MCServerHost ----------------------------
(* Instances of ServerHost for TLC.                                        *)
EXTENDS ServerHost

CONSTANTS i1, i2, k1, k2, s1, s2, s3, s4

\* Three connections of the one client, one of the other.
TwoClients == [s \in Sockets |-> IF s = s4 THEN i2 ELSE i1]

\* Each client has an address of its own.
AddressOfClient == [s \in Sockets |-> IF s = s4 THEN k2 ELSE k1]

=============================================================================
