SPECIFICATION Spec
CONSTANTS
  Scenarios <- RigScenarios
  MaxShutdowns = 1
  MaxSteps = 5
  NoKey = "none"
INVARIANTS SettlesAsPredicted CloseBalances BudgetsAndKeysExact NilMeansAtRest
CHECK_DEADLOCK FALSE
