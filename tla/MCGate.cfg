SPECIFICATION FairSpec
CONSTANTS
  Callers = {c1, c2}
  Shutdowns = {s1, s2}
  Readers = {r1}
  MaxAdmitted = 1
  Wrap = 2
INVARIANTS CountExact ClosedOnce NilSeesAllFinished SnapshotOrdered
PROPERTIES ImplementsLifecycle DrainCompletes
