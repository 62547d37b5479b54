\* The largest bounds of the three troubles of MCStreamFaults.
CONSTANTS
  good = good
  bad = bad
  Jobs = {good, bad}
  MaxAttempt = 2
  MaxStreams = 2
  MaxFaults = 1
  InvalidJobs = {bad}
  AckWindow = 2
  MaxReopens = 0
  PendingCap = 1
  MaxConns = 2
  MaxTrouble = 2
  MaxRefusals = 1
  MaxEvents = 1
  NoJob = NoJob
  MaxSeq <- TwoLives
SPECIFICATION MCSpec
INVARIANTS OneFramePerIdentity
PROPERTIES RunningIsNeverReleased DurableHandlers
CHECK_DEADLOCK FALSE
