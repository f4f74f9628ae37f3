SPECIFICATION Spec
CONSTANTS
  None = None
  Absent = Absent
  Newline = Newline
  ping = ping
  Payloads <- MCPayloads
  Noise = {ping}
  Missing = Missing
  Keys <- MCKeys
  Leaves <- MCLeaves
  Nesting = 9
  MaxDepth = 3
  Streams <- MCStreams
  Bodies <- MCBodies
  Contexts <- MCContexts
  Tools <- MCTools
  Arguments <- MCArguments
  Refusals <- MCRefusals
  MaxStreams = 1
  MaxRecords = 3
  MaxTime = 2
INVARIANT UsageWhole
INVARIANT HitRateAtMostOne
INVARIANT ViewsAlike
INVARIANT BucketsAlike
INVARIANT BucketsAddUp
INVARIANT NeverNarrower
CHECK_DEADLOCK FALSE
