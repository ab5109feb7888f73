CONSTANTS
  N = 2
  Capacity = 2
  Target = 2
  MaxEpisodes = 3
SPECIFICATION FairSpec
INVARIANTS
  AllOrNothing
  ShutdownOrder
  EpisodesAccounted
PROPERTY Returns
CHECK_DEADLOCK FALSE
