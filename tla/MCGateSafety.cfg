\* Safety of the gate: four requests, two of them impatient, two resizes that
\* may overlap.
CONSTANTS
  r1 = r1
  r2 = r2
  r3 = r3
  r4 = r4
  c1 = c1
  c2 = c2
  NoLimit = NoLimit
  Reqs = {r1, r2, r3, r4}
  Impatient = {r3,r4}
  Recs = {c1, c2}
  Limits = {2}
  DefaultLimit = 1
  Workers = 2
  MaxQueueSize = 1
  MaxBumps = 1
  WordSize = 16
SPECIFICATION Spec
SYMMETRY Patient
INVARIANTS
  PermitAccounting
  ActiveWithinLimit
  QueuedExact
  QueueBounded
PROPERTIES
  ImplementsFifoGate
  NoOvertaking
CHECK_DEADLOCK FALSE
