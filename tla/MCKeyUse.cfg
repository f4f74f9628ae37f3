\* Two requests, two lists of different lengths, one with an empty key.
CONSTANTS
  k1 = k1
  k2 = k2
  k3 = k3
  r1 = r1
  r2 = r2
  NoKey = NoKey
  Keys = {k1, k2, k3}
  Lists <- WithEmpty
  Reqs = {r1, r2}
  MaxRetries = 2
SPECIFICATION LiveSpec
INVARIANTS
  FreshSlotsValid
  RoundRobinBalanced
PROPERTIES
  CooldownHonoured
  KeysRecover
