SPECIFICATION StackSpec
CONSTANTS
  Capacity = 5
  NoKey = 0
  Keys <- SomeKeys
  natural_slot <- LowBits
INVARIANTS
  Counted
PROPERTY EntriesStay
