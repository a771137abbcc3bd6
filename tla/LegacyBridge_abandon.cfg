\* The session is abandoned while its attempt is with the tracker.
CONSTANTS
  None = None
  c1 = c1
  c2 = c2
  s1 = s1
  e1 = e1
  f1 = f1
  f2 = f2
  Callers = {c1}
  Sessions = {s1}
  EventIds = {e1}
  Facts = {f1}
  MaxHint = 0
  MaxLog = 2
  Faults = {}
  Telegram = FALSE
SPECIFICATION Spec
CHECK_DEADLOCK FALSE
INVARIANT AbandonedHasNoEvidence
