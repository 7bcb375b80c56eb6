SPECIFICATION FairSpec
CONSTANTS
  kRows = 2
  kColumns = 7
  kLineMax = 8
  HistorySize = 2
  Lines <- MCLines
  Dirs <- MCDirs
  Apps <- MCApps
  AppCodes = {2}
  FileText <- MCFileText
  GarbageIds = {1, 2}
  MaxTasks = 5
  MaxQueue = 1
  MaxLines = 2
  MaxEdits = 1
INVARIANTS
  PromptLineFaithful
  CursorInWindow
  PromptRestored
PROPERTY LineEnds
CHECK_DEADLOCK FALSE
