CONSTANTS
  NoLimit <- MCNoLimit
  Goes <- MCGoes
  Steps = {10, 30}
  Horizon = 650
  MaxDepth = 4
  Evals = {0, 120, 29000}
  MateEvals = {29000}
  Moves = {"a", "b"}
SPECIFICATION Spec
INVARIANTS
  GuaranteedMinimum
  NeverFlags
  CalmSearchEndsInTime
PROPERTIES
  TimedSearchEnds
