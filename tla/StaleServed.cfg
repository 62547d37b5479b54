\* One thread, and a payload that cannot be unlinked; the cap holds one of the two objects.
CONSTANTS
  Threads = {t1}
  oldRun = oldRun
  newRun = newRun
  Keys = {oldRun, newRun}
  Inputs = {oldRun}
  Siblings <- Generations
  Size <- Sizes
  Cap = 3
  RetainedCap = 2
  Holders = {thisPod}
  Nobody = Nobody
  MaxOps = 3
  Fragile = {"drop payload"}
SPECIFICATION Spec
INVARIANTS InvalidatedIsDownloaded
