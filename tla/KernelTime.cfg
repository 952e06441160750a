SPECIFICATION KernelTimeSpec
CONSTANTS
  Tasks = {t1, t2}
  Idle = Idle
  TickModulus = 5
  MaxPended = 2
  OverflowModulus = 3
  MaxGap = 5
INVARIANTS
  KernelTimeTypeOK
  NoTaskPassedBy
  NeverLate
PROPERTIES
  ImplementsTimedWaits
  WaitsEnd
  EndsOnlyInTime
  DelaysToSchedule
