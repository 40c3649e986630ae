SPECIFICATION Spec
CONSTANTS
  BlinkGoal = 3
  EchoGoal = 1
  TickGoal = 4
  SwitchGoal = 8
  BlinkPeriod = 2
  ReadyLen = 2
  MaxBytes = 2
  Faults = {"create", "scheduler", "assert", "task_return",
            "exception", "interrupt", "overflow"}
INVARIANTS
  TypeOK
  PassIsEarned
  EchoIsFaithful
  TrapIsReported
PROPERTIES
  DemoEnds
CHECK_DEADLOCK FALSE
