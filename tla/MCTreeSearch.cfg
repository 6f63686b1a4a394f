CONSTANTS
  MaxMate = 30000
  MaxPly = 12
  NoMove = NoMove
  Games <- MCGames
SPECIFICATION Spec
INVARIANTS
  RootPromise
  PvPlayable
  BoardFollowsCalls
  EachMoveOnce
  MateIsForced
PROPERTIES
  AbortLearnsNothing
  SearchTerminates
