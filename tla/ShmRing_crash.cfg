CONSTANTS
  Producers = {p1, p2}
  Cap = 2
  MaxSeq = 1
  Crashable = {p1}
SPECIFICATION FairSpec
PROPERTY TransientEnds
CHECK_DEADLOCK FALSE
