SPECIFICATION FairSpec
CONSTANTS
  MaxMate = 9
  MaxPly = 3
  TrustWindow = 2
  StepWindow = 1
  MaxTrendMultiplier = 3
  NoMove = NoMove
  Moves = {m1, m2}
  StaticEvals <- MCStaticEvals
  MaxDepth = 2
INVARIANTS
  ProbeInsideWindow
  DisplayedMoveIsBest
  NoProbeAfterMate
PROPERTIES
  ProbeMakesProgress
  DepthShowsPV
  Terminates
CHECK_DEADLOCK FALSE
