CONSTANTS
  Terminals = {3}
  kTaskTimerPeriod = 2
  kTimer05Sec = 3
  Arguments = {0, 2}
  MaxTick = 7
  MaxAppTimers = 2
SPECIFICATION Spec
INVARIANTS
  TimersExact
  TaskTimerArmed
  CursorTimerConserved
CHECK_DEADLOCK FALSE
