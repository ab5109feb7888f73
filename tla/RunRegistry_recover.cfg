CONSTANTS
  p1 = p1
  p2 = p2
  Nobody = Nobody
  Procs = {p1, p2}
  MaxCommands = 4
SYMMETRY Symmetry
SPECIFICATION Spec
PROPERTY TerminalFrozen
CHECK_DEADLOCK FALSE
