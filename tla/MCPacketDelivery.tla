-------------------------- MODULE MCPacketDelivery --------------------------
(* Instances of PacketDelivery for TLC.                                    *)
EXTENDS PacketDelivery, TLC

CONSTANTS p1, p2, c1, c2, s1, s2, o1, o2, o3, o4

\* o1 and o2 repeat one packet id, o3 and o4 another one.
SharedPacketOf == [o \in Ops |-> IF o \in {o3, o4} THEN p2 ELSE p1]

\* Every call repeats the same packet id.
OnePacketOf == [o \in Ops |-> p1]

\* One client on every socket.
OneOwner == [p \in Packets |-> c1]
OneClientOf == [s \in Sockets |-> c1]

\* A client per socket and per packet.
TwoOwners == [p \in Packets |-> IF p = p2 THEN c2 ELSE c1]
TwoClientsOf == [s \in Sockets |-> IF s = s2 THEN c2 ELSE c1]

\* Calls with the same packet and sockets of the same client are alike.
Symmetry == Permutations(Sockets) \cup Permutations({o1, o2}) \cup Permutations({o3, o4})

=============================================================================
