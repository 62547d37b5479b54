CONSTANTS
  Chains <- MCChains
  Steps <- MCSteps
  Loads <- MCLoads
  Of <- MCOf
  Needs <- MCNeeds
  Reads <- MCReads
  Ports <- MCPorts
  Optional <- MCOptional
  Heavy <- MCHeavy
  Transport <- MCTransport
  Pack <- MCPack
  StepCap = 1
  TransportCap = 1
  Uploaders = 1
  GpuWidth = 1
  Jobs <- MCJobs
  Kind <- MCKind
  Weights <- MCWeights
  Sets <- MCSets
  Groups <- MCGroups
  Requests <- MCRequests
  Tiles = 2
  Gathered <- MCGathered
  Coexist = {TRUE, FALSE}
  Served = {"align", "clip_rank"}
  Parallel = 2
SPECIFICATION MCSpec
INVARIANTS NamedHasLanded WorkspaceOutlivesUse ResidencyHolds LanesAreExact ScoresAreTheTiles
PROPERTIES ExecutorsEnd
CHECK_DEADLOCK FALSE
