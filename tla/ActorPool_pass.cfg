CONSTANTS
  Kinds <- BothKinds
  N = 2
  QueueSize = 1
  MaxVersion = 2
SPECIFICATION FairSpec
INVARIANTS
  CollectedWhole
  CollectedFresh
  NothingOutlives
PROPERTY CloseReturns
CHECK_DEADLOCK FALSE
