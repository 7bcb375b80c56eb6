CONSTANTS
  kFrameCount = 4
  kHeapFrames = 1
  MaxDescriptors = 1
  MemoryMaps <- AllMaps
  Holders = {h1, h2}
  Sizes = {1}
SPECIFICATION RaceSpec
INVARIANT NewPageIsNew
CHECK_DEADLOCK FALSE
