CONSTANTS
  MaxEvents = 2
  Reports = 1
  MayFail = FALSE
  ServerMayClose = FALSE
SPECIFICATION FairSpec
PROPERTIES
  ConnectsAgain
  StopForbidsReconnect
