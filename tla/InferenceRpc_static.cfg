CONSTANTS
  g1 = g1
  p1 = p1
  SocketClients = {g1}
  QueueClients = {p1}
  MaxBatch = 2
  MaxRequests = 2
  MaxUpdates = 1
SPECIFICATION Spec
INVARIANT StaticAtHand
CHECK_DEADLOCK FALSE
