SPECIFICATION QueueSpec
CONSTANTS
  Messages = {m1, m2}
  Lengths = {1, 3}
  a = a
  b = b
  c = c
  Idle = idle
  Tasks <- MCTasks
  uxPriority <- MCPriority
  Uses <- MCUses
  portMAX_DELAY = 3
  MaxPended = 2
INVARIANTS
  QueueConsistent
  BlockedAreListed
  NoWakeUpLost
  WaitsForTheRest
PROPERTIES
  ImplementsMessageQueue
  HighestFirst
  FailsOnlyInTime
