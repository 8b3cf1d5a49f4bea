\* Without loss or failure, and with room in every queue: the sender's frames are
\* written and freed, and yet the account fills.
SPECIFICATION Spec
CONSTANTS
  task_a = task_a
  task_b = task_b
  Clients <- MCClients
  Asks <- MCAsks
  Data <- MCData
  Strays <- MCStrays
  TxLength = 2
  Limit = 33
  MaxAnswers = 1
  MayLose = FALSE
  MayFail = FALSE
INVARIANT IdleSystemCanSend
