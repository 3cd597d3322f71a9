SPECIFICATION LabSpec
CONSTANTS
  SpecLists <- MCSpecLists
  PolicyInputs <- MCPolicyInputs
  NoKey = "none"
  GenResources = 1
  MaxCap = 2
  GenKeys = {"k"}
  CallPool <- MCCallPool
  GenSteps = 3
  GenShutdowns = 1
  Funcs <- MCFuncs
  Statements <- MCStatements
  MaxLength = 3
  Files = {"a", "b"}
  Mutants = {1, 2}
  FileOf <- MCFileOf
  Workers = {1, 2}
  Fate <- MCFate
  Selections <- MCSelections
  Underfoot = TRUE
  MaxVersion = 2
  MaxStages = 2
  MaxRuns = 2
  MaxFlakes = 1
  Clients = {0, 1}
  Workloads <- MCWorkloads
  Shards = 2
  OpenQueue = 1
  MaxClock = 2
  MaxCalls = 2
INVARIANTS AsPredicted LowestDecides SnapshotKept ReproductionMinimal KeysIdentify VerdictsEarned MeasurementSound
CHECK_DEADLOCK FALSE
