SPECIFICATION FairSpec
CONSTANTS
  Callers = {c1, c2}
  Budgets <- MCBudgets
  Size <- MCSize
  k1 = k1
  Key <- MCKey
  Ops <- MCOps
  None = None
  Watched = 1
PROPERTIES EveryCallReturns ShutdownWakesWaiters
