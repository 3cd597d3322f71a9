SPECIFICATION FairSpec
CONSTANTS
  Callers = {c1, c2}
  Shutdowns = {s1}
  Readers = {}
  MaxAdmitted = 1
  Wrap = 2
PROPERTY DrainsOnceAllFinished
