\* An override posted after the first fetch.
CONSTANTS
  None = None
  Main = main
  e1 = e1
  Endpoints = {e1}
  Posts = {p1}
  Plans <- TwoPlans
  Overrides = {0, 2}
  Ttl = 2
  MaxChanges = 0
  MaxFails = 0
SPECIFICATION Spec
INVARIANT OverrideTakesEffect
