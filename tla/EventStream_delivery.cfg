\* One chat, two workers, two attempts; the client reconnects once, and its stream ends.
CONSTANTS
  None = None
  w1 = w1
  w2 = w2
  d1 = d1
  Workers = {w1, w2}
  CacheKeys = {d1}
  Requests <- OneChat
  Usages <- OneUsage
  MaxRuns = 1
  MaxAttempts = 2
  MaxInput = 8
  MaxOutput = 2
  Budget = 20
  Watched = 1
  BatchSize = 2
  MaxDrops = 1
SPECIFICATION FairStreamSpec
CHECK_DEADLOCK FALSE
INVARIANT NothingSkipped
INVARIANT RestartIsAnnounced
PROPERTY StreamEnds
