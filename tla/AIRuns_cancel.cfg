\* A run whose cancellation was acknowledged while it was running: its worker dies, or its
\* provider fails and it goes back to the queue, and nobody may claim it again.
CONSTANTS
  None = None
  w1 = w1
  w2 = w2
  d1 = d1
  Workers = {w1}
  CacheKeys = {d1}
  Requests <- LifecycleRequests
  Usages <- OneUsage
  MaxRuns = 1
  MaxAttempts = 2
  MaxInput = 8
  MaxOutput = 2
  Budget = 20
SPECIFICATION FairSpec
CHECK_DEADLOCK FALSE
PROPERTY CancelTakesEffect
