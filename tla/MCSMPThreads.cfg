SPECIFICATION FairSpec
CONSTANTS
  MaxMate = 9
  MaxPly = 3
  NoMove = NoMove
  Bounded = {TRUE, FALSE}
  N = 3
  MaxDepth = 1
  Moves = {m1}
  Reported = {1}
PROPERTIES
  Returns
CHECK_DEADLOCK FALSE
