SPECIFICATION Spec
CONSTANTS
  HighSize = 2
  LowSize = 9
  MaxPass = 3
INVARIANTS
  TypeOK
  ReadIsInstant
  InterruptJustified
PROPERTIES
  EveryCallReturns
