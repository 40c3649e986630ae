SPECIFICATION SquashSpec
CONSTANTS
  NumPCs = 3
  ResetVector = 0
  MaxCount = 2
INVARIANTS SquashCounted
CHECK_DEADLOCK FALSE
