CONSTANTS
  kChunk = 2
  WriteSizes = {1, 3}
  ReadSizes = {1, 3}
  MaxBytes = 7
  MaxMsgs = 3
SPECIFICATION FairPipeSpec
PROPERTIES
  PipeIsChannel
  EndOfInputSeen
