\* A session reveals a level; before it is recorded, its assignment reveals the next and the session is continued.
CONSTANTS
  None = None
  c1 = c1
  c2 = c2
  s1 = s1
  e1 = e1
  f1 = f1
  f2 = f2
  Callers = {c1, c2}
  Sessions = {s1}
  EventIds = {}
  Facts = {f1}
  MaxHint = 2
  MaxLog = 1
  Faults = {}
  Telegram = FALSE
SPECIFICATION Spec
CHECK_DEADLOCK FALSE
PROPERTY SessionHintNeverFalls
