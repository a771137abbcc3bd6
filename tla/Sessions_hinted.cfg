\* A hint, a hinted attempt through the assignment, then a green through the session.
CONSTANTS
  None = None
  p1 = p1
  a1 = a1
  i1 = i1
  e1 = e1
  e2 = e2
  Problems = {p1}
  Assignments = {a1}
  ProblemOf <- ExecutesP1
  Authored <- AllAuthored
  Content <- AllContent
  StartIds = {i1}
  EventIds = {e1, e2}
  Reports <- Greens
  MaxSessions = 1
  MaxHint = 1
SPECIFICATION Spec
CHECK_DEADLOCK FALSE
INVARIANT HintedIsNotIndependent
