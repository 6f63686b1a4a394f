SPECIFICATION FairSpec
CONSTANTS
  start = start
  endgame = endgame
  None = None
  Positions <- MCPositions
  StartPos = start
  TablebaseHits <- MCTablebaseHits
  ThreadValues <- MCThreadValues
  MaxThreads = 3
  TTSizes <- MCTTSizes
  DefaultTTSize = 2
  Generations = 3
INVARIANTS
  SearchSeesGame
  GenerationOfSearch
PROPERTIES
  SearchUndisturbed
  CommandsComplete
  Implements
CHECK_DEADLOCK FALSE
