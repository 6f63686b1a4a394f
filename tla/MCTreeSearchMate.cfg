CONSTANTS
  MaxMate = 30000
  MaxPly = 12
  NoMove = NoMove
  Games <- MCFalseMate
SPECIFICATION Spec
INVARIANTS
  ProvenMateIsForced
