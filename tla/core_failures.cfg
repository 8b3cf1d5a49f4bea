CONSTANTS
  Streams <- DamagedStreams
  ChunkSizes = {5, 20}
  STARTING_PARSER_BUFFER_SIZE = 11
  MAX_PARSER_BUFFER_SIZE = 64
  MAX_SINGLE_ALLOC = 24
  MAX_TOTAL_ALLOC = 60
  FrameQueueLen = 1
  AllocMayFail = TRUE
  LockMayTimeout = TRUE
  MaxCycles = 2
SPECIFICATION FairSpec
CHECK_DEADLOCK FALSE
INVARIANTS
  TypeOK
  WritesInBounds
  BuiltIsWindow
  FramesGenuine
  FramesDisjoint
  LargeBufferOnlyInBursts
  AccountCoversUse
PROPERTIES
  StatusSound
  ParseReturns
