SPECIFICATION Spec
CONSTANTS
  Callers = {c1, c2, c3}
  Budgets <- MCBudgets
  Size <- MCSize
  k1 = k1
  Key <- MCKey
  Ops <- MCOps
  None = None
  Watched = 1
SYMMETRY CallerSymmetry
INVARIANTS BudgetsExact NilMeansAtRest StoppingJustified
PROPERTIES KeepsGateAndKeys KeepsBudget
