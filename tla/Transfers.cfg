\* One thread's two downloads of an object that is replaced once; two threads' three
\* PUTs around one idle period; two tiles on two hosts with two threads.
CONSTANTS
  Threads = {t1}
  Threshold = 2
  Width = 2
  MaxCalls = 2
  Sizes <- MCSizes
  Origins <- MCOrigins
  Putters = {u1, u2}
  MaxPuts = 3
  MaxIdles = 1
  Attempts = 3
  N = 2
  Hosts = {1, 2}
  Pool = 2
  PoolWidth = 2
  OriginAttempts = 2
  MaxHold = 2
  Deadline = 2
  WindowN = 2
  MinN = 2
  Urls <- MCUrls
  Windows <- MCWindows
SPECIFICATION TransfersSpec
INVARIANTS WholeObject PutsAreAccounted SlotsAreExact VerdictReachesRequest
PROPERTIES TransfersEnd
