CONSTANTS
  Streams <- CleanStreams
  ChunkSizes = {9, 14}
  STARTING_PARSER_BUFFER_SIZE = 11
  MAX_PARSER_BUFFER_SIZE = 64
  MAX_SINGLE_ALLOC = 24
  MAX_TOTAL_ALLOC = 400
  FrameQueueLen = 1
  AllocMayFail = FALSE
  LockMayTimeout = FALSE
  MaxCycles = 1
SPECIFICATION Spec
CHECK_DEADLOCK FALSE
INVARIANT NoDoubleFree
