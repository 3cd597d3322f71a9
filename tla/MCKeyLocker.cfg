SPECIFICATION FairSpec
CONSTANTS
  Callers = {c1, c2, c3}
  Key = {k1, k2}
  Entries = {e1, e2, e3}
  None = None
INVARIANTS MutualExclusion EntriesSound TokenReady
PROPERTIES ImplementsKeys WaitersProceed
