SPECIFICATION Spec
CONSTANTS
  Tasks = {t1, t2}
  Apps = {a1, a2}
  Broken = {a2}
  NumFrames = 12
  ImageSize = 1
  GapSize = 1
  MaxRuns = 3
  KernelBuffers = {1, 2}
  NoApp = NoApp
SYMMETRY Symmetry
INVARIANTS
  FramesExclusive
  MemoryIsPrivate
  NoLeakWithoutError
CHECK_DEADLOCK FALSE
