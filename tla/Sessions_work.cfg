\* One assignment and its problem, two sessions, two levels, two event ids: attempts and hints
\* through both endpoints, starts that reuse an id, and coaching that is accepted or lost.
CONSTANTS
  None = None
  p1 = p1
  a1 = a1
  i1 = i1
  e1 = e1
  e2 = e2
  Problems = {p1}
  Assignments = {a1}
  ProblemOf <- ExecutesP1
  Authored <- AllAuthored
  Content <- AllContent
  StartIds = {i1}
  EventIds = {e1, e2}
  Reports <- GreenOrSkip
  MaxSessions = 2
  MaxHint = 2
SPECIFICATION Spec
SYMMETRY EventSymmetry
CHECK_DEADLOCK FALSE
INVARIANT OneOpenSession
INVARIANT ClosedWithItsAttempt
INVARIANT RetryIsAnswered
INVARIANT CompletedByIndependentGreen
INVARIANT EvidenceCounted
INVARIANT LadderIsClimbedAndCounted
PROPERTY CompletedIsFinal
PROPERTY CoachedIsNotIndependent
