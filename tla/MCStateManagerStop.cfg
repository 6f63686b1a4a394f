SPECIFICATION FairSpec
CONSTANTS
  start = start
  endgame = endgame
  None = None
  Positions <- MCPositions
  StartPos = start
  TablebaseHits <- MCTablebaseHits
  ThreadValues <- MCOneThread
  MaxThreads = 3
  TTSizes <- MCTTSizes
  DefaultTTSize = 2
  Generations = 3
PROPERTY StopTerminatesSearch
CHECK_DEADLOCK FALSE
