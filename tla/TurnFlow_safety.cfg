CONSTANTS
  TeamSize = 3
  TimeoutRound = 2
  MaxRounds = 0
SPECIFICATION FairSpec
INVARIANTS
  Standing
  NeverStuck
  OverExactly
  TurnHolder
  NoDoubleTurn
PROPERTY StepReturns
CHECK_DEADLOCK FALSE
