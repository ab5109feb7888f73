CONSTANTS
  Producers = {p1, p2}
  Cap = 2
  MaxSeq = 2
  Crashable = {p1, p2}
SPECIFICATION ProbeSpec
INVARIANTS
  CountAccounted
  NoTornDelivery
  Accounted
PROPERTIES
  ImplementsChannel
  HealthyMeansPop
  Drains
CHECK_DEADLOCK FALSE
