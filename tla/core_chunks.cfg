CONSTANTS
  Streams <- CleanStreams
  ChunkSizes = {1, 2, 5, 9, 14}
  STARTING_PARSER_BUFFER_SIZE = 11
  MAX_PARSER_BUFFER_SIZE = 64
  MAX_SINGLE_ALLOC = 24
  MAX_TOTAL_ALLOC = 400
  FrameQueueLen = 6
  AllocMayFail = FALSE
  LockMayTimeout = FALSE
  MaxCycles = 1
SPECIFICATION Spec
CHECK_DEADLOCK FALSE
INVARIANTS
  ScanAgrees
  NoLeak
  NoNullWrite
