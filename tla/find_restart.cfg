CONSTANTS
  UartEvents = 2
  HalEvents = 1
  MaxFrames = 1
  MayFail = FALSE
  Restart = TRUE
SPECIFICATION Spec
CHECK_DEADLOCK FALSE
INVARIANT RunningIsServed
