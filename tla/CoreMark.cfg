SPECIFICATION Spec
CONSTANTS
  Size = 4
  Bytes = {0, 1, 255}
  Values = {0, 511, 257}
  LowSize = 8
  WordSize = 4096
  ClockHz = 2
  MinSecs = 3
  RunTimes = {1, 3, 13}
  MaxOthers = 1
  MaxPasses = 2
  ExitCodes = {0, 1, 2048}
  Causes = {2}
INVARIANTS
  RoutineCorrect
  MeasuresTheRegion
  VerdictIsRight
CHECK_DEADLOCK FALSE
