\* Liveness: three requests, one place, two keys, two attempts.
CONSTANTS
  k1 = k1
  k2 = k2
  c1 = c1
  a2 = a2
  q1 = q1
  a1 = a1
  NoKey = NoKey
  Keys = {k1, k2}
  Lists <- TwoKeysOrNone
  Convs = {c1}
  MapMax = 2
  EvictTo = 1
  Reqs = {q1, a1, a2}
  Anthropic = {a1, a2}
  ConvOf <- SameConv
  MaxRetries = 2
  MaxActive = 1
SPECIFICATION LiveSpec
PROPERTY Answered
CHECK_DEADLOCK FALSE
