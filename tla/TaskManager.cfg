CONSTANTS
  kMaxLevel = 3
  kDefaultLevel = 1
  MaxTasks = 5
  MaxMsgs = 2
  MaxSends = 6
SPECIFICATION FairSpec
INVARIANTS
  SchedulerConsistent
  NoLostWakeup
  ExitProtocol
PROPERTIES
  RescheduleRunsHighest
  RunningTaskRuns
  ExitIsCollected
