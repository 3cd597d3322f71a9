SPECIFICATION Spec
CONSTANTS
  Callers = {c1}
  Shutdowns = {s1, s2}
  Readers = {}
  MaxAdmitted = 1
  Wrap = 2
INVARIANT DrainedBeatsExpired
