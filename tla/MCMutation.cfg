SPECIFICATION Spec
CONSTANTS
  Files = {"a", "b"}
  Mutants = {1, 2}
  FileOf <- MCFileOf
  Workers = {1, 2}
  Fate <- MCFate
  Selections <- MCSelections
  Underfoot = FALSE
  MaxVersion = 2
  MaxStages = 2
  MaxRuns = 2
  MaxFlakes = 1
INVARIANT StandingVerdictsHold
CHECK_DEADLOCK FALSE
