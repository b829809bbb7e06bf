CONSTANTS
  p1 = p1
  p2 = p2
  c1 = c1
  c2 = c2
  s1 = s1
  s2 = s2
  o1 = o1
  o2 = o2
  o3 = o3
  o4 = o4
  NoEntry = NoEntry
  Packets = {p1, p2}
  Ops = {o1, o2, o3, o4}
  PacketOf <- SharedPacketOf
  Clients = {c1}
  Owner <- OneOwner
  Sockets = {s1, s2}
  ClientOf <- OneClientOf
  MaxAttempts = 1
  MaxPendingAcks = 2
  MaxTotalPendingAcks = 2
  MaxProcessedPackets = 1
  MaxProcessedPacketClients = 1
  MaxTotalProcessedPackets = 1
  MaxExpiries = 0
  Abortable = {o1, o2}
  Faulty = TRUE
  Prompt = FALSE
SPECIFICATION Spec
INVARIANTS
  NoOrphanEntry
PROPERTIES
  ImplementsAckedDelivery
  FailureClosesSocket
SYMMETRY Symmetry
CHECK_DEADLOCK FALSE
