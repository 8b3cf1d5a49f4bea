CONSTANTS
  network = network
  user = user
  Pollers <- MC_Pollers
  Decoder = decoder
  None = none
  Reports = 4
  APP_EVENT_QUEUE_LEN = 2
SPECIFICATION FairSpec
CHECK_DEADLOCK FALSE
INVARIANTS
  TypeOK
  HeapIsReachable
  NoWildFree
PROPERTIES
  Implements
  DecoderGoesOn
