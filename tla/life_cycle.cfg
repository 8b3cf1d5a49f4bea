CONSTANTS
  UartEvents = 2
  HalEvents = 2
  MaxFrames = 2
  MayFail = FALSE
  Restart = FALSE
SPECIFICATION FairSpec
INVARIANTS
  LayersAgree
  RunningIsServed
  NoNullHandle
PROPERTIES
  CallsReturn
