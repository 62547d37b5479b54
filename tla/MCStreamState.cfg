\* One job, two attempts, two incarnations, one failed write: every handler in every order.
CONSTANTS
  Jobs = {j1}
  NoJob = NoJob
  MaxAttempt = 2
  MaxSeq <- TwoLives
  MaxStreams = 2
  MaxFaults = 1
SPECIFICATION Spec
INVARIANTS TypeOK BootNeverRefuses NothingOwedIsLost
PROPERTY VerdictSticks
CHECK_DEADLOCK FALSE
