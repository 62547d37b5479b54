\* One job, a socket that is lost once and replaced.
CONSTANTS
  Jobs = {j1}
  MaxAttempt = 1
  MaxStreams = 1
  MaxFaults = 0
  InvalidJobs = {}
  AckWindow = 2
  MaxReopens = 0
  PendingCap = 1
  MaxConns = 2
  MaxTrouble = 1
  MaxRefusals = 0
  MaxEvents = 0
  NoJob = NoJob
  MaxSeq <- OneLife
SPECIFICATION FairStreamSpec
INVARIANTS ReceiptPrecedesResult
PROPERTIES AckedWasCommitted RetiresInOrder AssignedGetsCommitted
CHECK_DEADLOCK FALSE
