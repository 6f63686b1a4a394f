SPECIFICATION Spec
CONSTANTS
  Capacity = 8
  NoKey = {}
  natural_slot <- KeySlot
  Fens <- QueensFens
  MaxPly = 1
INVARIANT KingMovesAreLegal
