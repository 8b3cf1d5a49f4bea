CONSTANTS
  PingEvery = 1
  PongWithin = 3
  ReconnectAfter = 1
  AnswerWithin = 1
  MaxInbox = 1
  MayFail = TRUE
  Prompt = TRUE
SPECIFICATION FairSpec
INVARIANTS
  TypeOK
  StartableAgain
  StaleOnlyAfterTimeout
  GivesUpFairly
PROPERTIES
  CallsReturn
  DeadIsNoticed
CHECK_DEADLOCK FALSE
