\* Two tasks, a budget of three frames, losses and failures anywhere.
SPECIFICATION Spec
CONSTANTS
  task_a = task_a
  task_b = task_b
  Clients <- MCClients
  Asks <- MCAsks
  Data <- MCData
  Strays <- MCStrays
  TxLength = 2
  Limit = 33
  MaxAnswers = 1
  MayLose = TRUE
  MayFail = TRUE
INVARIANTS TypeOK OwnAnswer ArrivesInItsMode
PROPERTIES Implements
