SPECIFICATION Spec
CONSTANTS
  BlinkGoal = 3
  EchoGoal = 1
  TickGoal = 4
  SwitchGoal = 8
  BlinkPeriod = 2
  ReadyLen = 2
  MaxBytes = 2
  Faults = {"task_return"}
INVARIANTS
  FaultIsReported
CHECK_DEADLOCK FALSE
