SPECIFICATION Spec
CONSTANTS
  Tasks <- MCTasks
  TaskSets <- MCTaskSets
  Builds = {"EDF", "BWP", "RTO"}
  Idle = Idle
  Timer = Timer
  UninitStartTime <- MCUninit
  CounterModulus = 4
  TickModulus = 64
  MaxStartupTicks = 0
  Periods = {2, 3, 4}
  Constraints = {0, 2, 3}
  MaxUtilization = 200
CHECK_DEADLOCK FALSE
INVARIANTS
  FlagCompleteAtExit
