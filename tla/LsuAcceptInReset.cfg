SPECIFICATION Spec
CONSTANTS
  MaxOps = 3
  AcceptInReset = TRUE
INVARIANTS OwnResponse
