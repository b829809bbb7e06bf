--------------------------- MODULE MCRouterSockets ---------------------------
(* Bounds and symmetry for TLC.                                            *)
EXTENDS RouterSockets

\* Clients, and sockets, are interchangeable; used where only safety is checked.
Symmetry == Permutations(Clients) \cup Permutations(Sockets)

=============================================================================
