SPECIFICATION Spec
CONSTANTS
  ScreenWidth = 3
  WindowWidth = 2
  OpenAt = {0}
  Programs = {p1}
  Terminals = {t1}
  MaxLayer = 7
  MaxMoves = 3
  MainTask = MainTask
  MaxOpened = 2
  MaxEvents = 3
CONSTRAINT Bounded
INVARIANTS
  StackIntact
  ActiveOnTop
  ScreenIsStack
  NullNeedsRace
CHECK_DEADLOCK FALSE
