CONSTANTS
  NumClusters = 5
  bytes_per_cluster = 2
  EntriesPerCluster = 2
  Files = {f, g}
  Fds = {d1, d2}
  WriteSizes = {0, 1, 2}
  ReadSizes = {3}
  MaxSize = 4
SPECIFICATION Spec
SYMMETRY Symmetry
INVARIANTS
  ChainsSound
  ContentStored
  DirectoryExact
  ReadReturnsContent
CHECK_DEADLOCK FALSE
