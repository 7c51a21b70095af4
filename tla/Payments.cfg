CONSTANTS
  l1 = l1
  Lives = {l1}
  Amount = 2
  Answers = {TRUE}
  MaxAttempts = 3
  MaxTries = 2
  MaxRestarts = 1
SPECIFICATION Spec
INVARIANTS
    NeverOverpaid
    LiveIsRecorded
    ResultKept
PROPERTIES
    PaidIsFinal
CHECK_DEADLOCK FALSE
