CONSTANTS
  UartEvents = 2
  HalEvents = 1
  MaxFrames = 1
  MayFail = TRUE
  Restart = TRUE
SPECIFICATION Spec
CHECK_DEADLOCK FALSE
INVARIANTS
  TypeOK
  TasksOwnQueues
PROPERTIES
  StopDrains
