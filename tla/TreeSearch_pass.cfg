CONSTANTS
  a = a
  b = b
  Workers = {w1, w2}
  NRollouts = 3
  MaxDepth = 2
  Actions = {a, b}
  Lists <- MCLists
  RootActions <- MCRoot
SPECIFICATION FairSpec
INVARIANTS
  OneChild
  NeverPanics
  OwnReply
  VisitsAdd
PROPERTY SearchReturns
CHECK_DEADLOCK FALSE
