CONSTANTS
  Rows = 2
  Columns = 3
  MaxText = 8
  MaxCoord = 4
  Strings <- MCStrings
  BoxWidth = 39
  MaxKeys = 5
  Texts <- MCTexts
  LineBuf = 5
  Height = 4
  Width = 5
  Tab = 4
  DrawBuf = 9
  PageSize = 2
  Expressions <- MCExpressions
  PageBytes = 4
  MaxHeap = 3
  kNumBlocksX = 3
  kNumBlocksY = 2
  kBlockWidth = 4
  kBlockHeight = 4
  kBarWidth = 4
  kBarHeight = 2
  kBallRadius = 2
  kGapWidth = 5
  kGapHeight = 6
  kGapBar = 8
  kBarFloat = 4
  Speed = 2
  BallOffset = 2
  Grid = 2
  BaseLen = 3
  ExtLen = 2
  Volumes <- MCVolumes
  Paths <- MCPaths
  Commands <- MCCommands
  ArgLists <- MCArgLists
  argv_len = 3
  argbuf_len = 12
  MaxFiles = 7
SPECIFICATION Spec
INVARIANTS
  ScreenExact
  FiltersExact
  StaysInside
  NamesExact
CHECK_DEADLOCK FALSE
