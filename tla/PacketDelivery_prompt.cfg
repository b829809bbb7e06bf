CONSTANTS
  p1 = p1
  p2 = p2
  c1 = c1
  c2 = c2
  s1 = s1
  s2 = s2
  o1 = o1
  o2 = o2
  o3 = o3
  o4 = o4
  NoEntry = NoEntry
  Packets = {p1}
  Ops = {o1, o2, o3}
  PacketOf <- OnePacketOf
  Clients = {c1}
  Owner <- OneOwner
  Sockets = {s1}
  ClientOf <- OneClientOf
  MaxAttempts = 3
  MaxPendingAcks = 2
  MaxTotalPendingAcks = 2
  MaxProcessedPackets = 1
  MaxProcessedPacketClients = 1
  MaxTotalProcessedPackets = 1
  MaxExpiries = 1
  Abortable = {}
  Faulty = FALSE
  Prompt = TRUE
SPECIFICATION FairSpec
INVARIANTS
  AcceptedOncePerRetention
  PromptNetworkKeepsSockets
PROPERTIES
  EveryCallReturns
CHECK_DEADLOCK FALSE
