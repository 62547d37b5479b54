CONSTANTS
  Jobs <- MCJobs
  Packs <- MCPacks
  Loads <- MCLoads
  Kind <- MCKind
  Pack <- MCPack
  Label <- MCLabel
  Invalid = {"bad"}
  Infra <- MCInfra
  Width <- MCWidth
  Coexist = TRUE
  FlipMax = 1
  PendingCap = 1
  UnhealthyCap = 1
  MaxFaults = 1
  MaxBoots = 2
SPECIFICATION Spec
INVARIANTS LatchIsHeard RestartLeavesNoWork BootBilledOnce HeldIsSomewhere
PROPERTIES LatchEndsLoop
