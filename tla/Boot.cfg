CONSTANTS
  Buses = {0, 1}
  LastDevice = 1
  LastFunction = 1
  MaxDevices = 6
  Topologies <- MCTopologies
  max_ports_ = 2
  max_slots_ = 2
  kCmdRingSize = 3
  kEp0RingSize = 5
  kEventRingSize = 6
  kMaxControllers = 2
  PedIsW1C = FALSE
  MaxPlugs = 1
  NumFrames = 7
  PageSize = 2
  Elfs <- MCElfs
  LastBlock = 4
  BlockSize = 1
  ChunkSize = 2
  MaxVolume = 3
  MaxEvents = 1
  TimerModulus = 8
  WaitTicks = 3
  MaxJump = 2
SPECIFICATION Spec
INVARIANTS
  HandoffSound
  PciComplete
  WaitLongEnough
  RingFaithful
  AnswerMatches
  EnumerationComplete
PROPERTIES
  UsbEnds
CHECK_DEADLOCK FALSE
