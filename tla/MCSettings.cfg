\* Two posts, a stop, a failed save; the environment sets the upstream key.
CONSTANTS
  k1 = k1
  k2 = k2
  l1 = l1
  l2 = l2
  NoKey = NoKey
  Torn = Torn
  Keys = {k1, k2}
  EnvKey = k1
  Addrs = {l1, l2}
  Default = l1
  Updates <- KeyOrList
  p1 = p1
  p2 = p2
  Posts = {p1, p2}
  MaxStops = 1
  MaxFails = 1
SPECIFICATION LiveSpec
INVARIANTS
  FileWhole
  SavedWhenQuiet
  PoolAgrees
PROPERTIES
  ChangesSaved
  AbsentFieldsKept
CHECK_DEADLOCK FALSE
