SPECIFICATION FairSpec
CONSTANTS
  Callers = {c1, c2, c3}
  Size = 2
INVARIANTS Conservation NoLostWakeup FullExact WaiterProtocol
PROPERTIES ImplementsSem WaitersProceed
