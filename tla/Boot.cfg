CONSTANTS
  MaxBoots = 3
  Parts = {p1, p2}
  MaxFetches = 2
  MaxDeaths = 1
SPECIFICATION MCSpec
INVARIANTS BootIsHonest WritersKeepTheirFile
PROPERTIES KeepsPromise BootConcludes
CHECK_DEADLOCK FALSE
