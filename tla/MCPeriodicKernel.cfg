SPECIFICATION FairSpec
CONSTANTS
  Tasks <- MCTasks
  TaskSets <- MCTaskSets
  Builds = {"EDF", "BWP", "RTO"}
  Idle = Idle
  Timer = Timer
  Nobody = Nobody
  UninitStartTime <- MCUninit
  CounterModulus = 3
  TickModulus = 64
  MaxStartupTicks = 2
  Periods = {2, 3}
  Constraints = {0, 2}
  MinUtilization = 100
  MaxUtilization = 150
CHECK_DEADLOCK FALSE
INVARIANTS
  ListsWellFormed
  WalkStaysInList
PROPERTIES
  NoTickLost
  ImplementsScheduler
  Exits
