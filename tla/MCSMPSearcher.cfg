SPECIFICATION Spec
CONSTANTS
  MaxMate = 9
  MaxPly = 3
  NoMove = NoMove
  Bounded = {TRUE}
  N = 2
  MaxDepth = 2
  Moves = {m1, m2}
  Reported <- MCScores
SYMMETRY MCSymmetry
INVARIANTS
  VoteIsFair
  ReturnedMoveIsShown
CHECK_DEADLOCK FALSE
