SPECIFICATION Spec
CONSTANTS
  Tasks <- MCThreeTasks
  TaskSets <- MCTaskSets
  Builds = {"EDF", "BWP", "RTO"}
  Idle = Idle
  Timer = Timer
  UninitStartTime <- MCUninit
  CounterModulus = 256
  TickModulus = 64
  MaxStartupTicks = 0
  Periods = {2, 3, 4}
  Constraints = {0, 2, 3}
  MaxUtilization = 160
CHECK_DEADLOCK FALSE
INVARIANTS
  FeasibleSetsNeverBreak
