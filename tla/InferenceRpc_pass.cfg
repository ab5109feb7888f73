CONSTANTS
  g1 = g1
  p1 = p1
  SocketClients = {g1}
  QueueClients = {p1}
  MaxBatch = 2
  MaxRequests = 2
  MaxUpdates = 1
SPECIFICATION FairSpec
INVARIANTS
  NoStaleReply
  EmbeddingCurrent
PROPERTIES
  ImplementsService
  Answered
CHECK_DEADLOCK FALSE
