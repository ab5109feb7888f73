CONSTANTS
  original = g
  clone = c
  Games = {g, c}
  Logged = {g}
  Snaps = {s1, s2, s3, s4}
  Nil = Nil
  Data <- Bits
  Stack <- Stacks
  Ops <- Begins
  Action <- Actions
  Request = {"target"}
  Event = {"drew"}
  Does <- DoesOf
  Moves <- MovesOf
  Wants <- WantsOf
  Answer <- AnswerOf
  Fits <- FitsOf
  Legal <- LegalOf
  MaxLog = 3
SPECIFICATION RSpec
SYMMETRY Similar
INVARIANT SharedKept
PROPERTY ImplementsCoroutine
CONSTRAINT Few
CHECK_DEADLOCK FALSE
