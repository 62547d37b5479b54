\* Two threads; the cap holds one of the two objects, and a share of it too.
CONSTANTS
  Threads = {t1, t2}
  oldRun = oldRun
  newRun = newRun
  Keys = {oldRun, newRun}
  Inputs = {oldRun}
  Siblings <- Generations
  Size <- Sizes
  Cap = 3
  RetainedCap = 2
  Holders = {thisPod}
  Nobody = Nobody
  MaxOps = 3
  Fragile = {"drop mark", "old mark", "old tree", "heal"}
SPECIFICATION Spec
SYMMETRY Interchangeable
INVARIANTS AccountHolds OnlyCopySurvives
PROPERTIES NeverStale
