SPECIFICATION Spec
CONSTANTS
  Tasks = {Idle, t1, t2}
  Idle = Idle
  Main = Main
  NoTask = NoTask
  MaxNesting = 2
INVARIANTS
  OneRunner
  TickOnCurrent
  NestingIsOwn
  WakeUpComes
  CancelledStays
SYMMETRY Symmetry
