CONSTANTS
  MaxEvents = 2
  Reports = 1
  MayFail = TRUE
  ServerMayClose = TRUE
SPECIFICATION FairSpec
INVARIANTS
  TypeOK
  LayersAgree
  SenderGoesFirst
PROPERTIES
  CallsReturn
