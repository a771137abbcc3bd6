\* Two workers race for two runs with two attempts each: takeovers, retries, crashes and
\* cancellations, with room in the budget; every step is one of JobContract.
CONSTANTS
  None = None
  w1 = w1
  w2 = w2
  d1 = d1
  Workers = {w1, w2}
  CacheKeys = {d1}
  Requests <- LifecycleRequests
  Usages <- OneUsage
  MaxRuns = 2
  MaxAttempts = 2
  MaxInput = 8
  MaxOutput = 2
  Budget = 20
SPECIFICATION Spec
SYMMETRY WorkerSymmetry
CHECK_DEADLOCK FALSE
INVARIANT TypeOK
INVARIANT FencingToken
INVARIANT AnsweredOnce
INVARIANT CancelBeatsAnswer
INVARIANT TextOfOneAttempt
INVARIANT LogAgrees
INVARIANT ReservationHeld
PROPERTY SettledIsFinal
PROPERTY StaleWritesNothing
PROPERTY KeepsContract
