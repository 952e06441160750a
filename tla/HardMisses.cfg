SPECIFICATION Spec
CONSTANTS
  TASK_CNT = 1
  MaxPeriods = 4
  Constraints = {0, 2}
CHECK_DEADLOCK FALSE
INVARIANTS
  HardMissesCounted
