\* Liveness: one resize, up or down.
CONSTANTS
  r1 = r1
  r2 = r2
  r3 = r3
  r4 = r4
  c1 = c1
  c2 = c2
  NoLimit = NoLimit
  Reqs = {r1, r2, r3}
  Impatient = {r1}
  Recs = {c1}
  Limits = {1, 3}
  DefaultLimit = 2
  Workers = 2
  MaxQueueSize = 1
  MaxBumps = 1
  WordSize = 16
SPECIFICATION LiveSpec
PROPERTY WaitersServed
CHECK_DEADLOCK FALSE
