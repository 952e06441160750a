SPECIFICATION FairSpec
CONSTANTS
  TASK_CNT = 3
  LOWEST_PERIOD = 6
  HIGHEST_PERIOD = 8
  LOWEST_WH = 0
  HIGHEST_WH = 1
  MAX_HIPERPERIOD = 60
  MAX_PERIOD_CNT = 10
  INT_MAX = 63
  Scale = 10
  TotalUtilization = 15
  CounterModulus = 4
  TickModulus = 256
CHECK_DEADLOCK FALSE
INVARIANTS
  GeneratesWellFormed
  ReportFits
PROPERTIES
  Generates
