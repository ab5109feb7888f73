CONSTANTS
  p1 = p1
  p2 = p2
  Nobody = Nobody
  Procs = {p1, p2}
  MaxCommands = 4
SYMMETRY Symmetry
SPECIFICATION Spec
INVARIANTS
  UniqueNumber
  VersionOwned
PROPERTIES
  PairKept
  OutcomeKept
CHECK_DEADLOCK FALSE
