\* The refresh task, an endpoint called again and again, a post of an
\* override, one change of the plan, one failure.
CONSTANTS
  None = None
  Main = main
  e1 = e1
  Endpoints = {e1}
  Posts = {p1}
  Plans <- TwoPlans
  Overrides = {2}
  Ttl = 2
  MaxChanges = 1
  MaxFails = 1
SPECIFICATION LiveSpec
INVARIANTS
  OneAnswerServesAll
  NoReturnToOldReport
  TwiceTtlAtMost
PROPERTY GateFollowsPlan
