\* Two requests that may die between any two steps, one event id used for the session and for
\* its assignment, with the bot writing to the same tracker.
CONSTANTS
  None = None
  c1 = c1
  c2 = c2
  s1 = s1
  e1 = e1
  f1 = f1
  f2 = f2
  Callers = {c1, c2}
  Sessions = {s1}
  EventIds = {e1}
  Facts = {f1, f2}
  MaxHint = 0
  MaxLog = 3
  Faults = {"crash", "timeout"}
  Telegram = TRUE
SPECIFICATION Spec
SYMMETRY CallerSymmetry
CHECK_DEADLOCK FALSE
INVARIANT NoSecondAction
INVARIANT CompletedIsRecorded
INVARIANT ClosedWithEvidence
PROPERTY KeepsClaims
