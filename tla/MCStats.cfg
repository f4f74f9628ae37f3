SPECIFICATION LiveSpec
CONSTANTS
  Recorders = {r1, r2}
  MaxRecords = 2
  ChannelSize = 1
  BatchSize = 2
  Retention = 1
  Period = 2
  Migrations = {m001}
  Initial = m001
  Start = 2
  MaxTime = 5
  MaxLog = 3
  MaxStops = 1
  MaxFails = 1
INVARIANT TypeOK
INVARIANT NothingElseLost
INVARIANT RingHoldsLatest
INVARIANT ViewsAgree
INVARIANT RowsExpire
PROPERTY EverySentSettles
