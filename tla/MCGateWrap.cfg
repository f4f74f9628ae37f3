\* An admission on the queue-full path wraps the counter.
CONSTANTS
  r1 = r1
  r2 = r2
  r3 = r3
  r4 = r4
  c1 = c1
  c2 = c2
  NoLimit = NoLimit
  Reqs = {r1, r2, r3, r4}
  Impatient = {}
  Recs = {}
  Limits = {2}
  DefaultLimit = 1
  Workers = 2
  MaxQueueSize = 1
  MaxBumps = 1
  WordSize = 16
SPECIFICATION Spec
PROPERTY RejectsOnlyWhenFull
CHECK_DEADLOCK FALSE
