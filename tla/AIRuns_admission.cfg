\* Payloads that share keys, a digest and a shelf, of which one is too large to admit, compete
\* for a tight budget; two workers, two attempts, a provider that may report more than was
\* reserved.
CONSTANTS
  None = None
  w1 = w1
  w2 = w2
  d1 = d1
  Workers = {w1, w2}
  CacheKeys = {d1}
  Requests <- AdmissionRequests
  Usages <- SmallUsages
  MaxRuns = 2
  MaxAttempts = 2
  MaxInput = 8
  MaxOutput = 2
  Budget = 8
SPECIFICATION Spec
SYMMETRY WorkerSymmetry
CHECK_DEADLOCK FALSE
INVARIANT ArtifactsAreFound
INVARIANT BudgetHeld
INVARIANT OneRunPerKey
