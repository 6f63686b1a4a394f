SPECIFICATION Spec
CONSTANTS
  Threads = {t1}
  Slots = 2
  Keys = {k1, k2, k3}
  Moves = {m1}
  NoMove = NoMove
  StoreDepths = {0, 4, 5}
  Generations = 2
SYMMETRY MCSymmetry
INVARIANTS
  OneEntryPerKey
PROPERTIES
  WeakestIsEvicted
