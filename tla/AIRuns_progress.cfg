\* Every run settles, whatever state other runs are stuck in: one worker that may crash, two runs, two attempts.
CONSTANTS
  None = None
  w1 = w1
  w2 = w2
  d1 = d1
  Workers = {w1}
  CacheKeys = {d1}
  Requests <- LifecycleRequests
  Usages <- OneUsage
  MaxRuns = 2
  MaxAttempts = 2
  MaxInput = 8
  MaxOutput = 2
  Budget = 20
SPECIFICATION FairSpec
CHECK_DEADLOCK FALSE
PROPERTY Settles
