\* The run is completed between the two reads of one poll.
CONSTANTS
  None = None
  w1 = w1
  w2 = w2
  d1 = d1
  Workers = {w1}
  CacheKeys = {d1}
  Requests <- OneChat
  Usages <- OneUsage
  MaxRuns = 1
  MaxAttempts = 2
  MaxInput = 8
  MaxOutput = 2
  Budget = 20
  Watched = 1
  BatchSize = 2
  MaxDrops = 0
SPECIFICATION StreamSpec
CHECK_DEADLOCK FALSE
INVARIANT EndIsDelivered
