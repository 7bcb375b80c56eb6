CONSTANTS
  kFrameCount = 7
  kHeapFrames = 2
  MaxDescriptors = 3
  MemoryMaps <- AllMaps
  Holders = {h1, h2}
  Sizes = {1, 2}
SPECIFICATION MemorySpec
INVARIANTS
  AllocatorSound
CHECK_DEADLOCK FALSE
