CONSTANTS
  a1 = a1
  a2 = a2
  Configs <- AllConfigs
  RingSize = 2
  Actors = {a1, a2}
  QueueSize = 2
  MaxResumes = 2
SPECIFICATION FairSpec
INVARIANTS
  ResumeRepeats
  UnfinishedRecoverable
  SerialOnPolicy
  SyncLag
PROPERTY Finishes
CHECK_DEADLOCK FALSE
