SPECIFICATION Spec
CONSTANTS
  TASK_CNT = 2
  MaxPeriods = 4
  Constraints = {0, 1, 2, 4}
CHECK_DEADLOCK FALSE
INVARIANTS
  MissedCounted
  SoftBreaksCounted
