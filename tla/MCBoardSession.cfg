SPECIFICATION Spec
CONSTANTS
  Capacity = 8
  NoKey = {}
  natural_slot <- KeySlot
  Fens <- RootFens
  MaxPly = 2
INVARIANTS
  IncrementalState
  CachesExact
  MoveGenerationExact
  TtMoveChecked
  GivesCheckExact
  RepetitionsCounted
  UciRoundTrip
  AccumulatorsFresh
  ExchangesByLeastValue
PROPERTIES
  Implements
  UndoRestores
