\* Two requests, which may die between any two steps, reveal two levels while the bot reveals too.
CONSTANTS
  None = None
  c1 = c1
  c2 = c2
  s1 = s1
  e1 = e1
  f1 = f1
  f2 = f2
  Callers = {c1, c2}
  Sessions = {s1}
  EventIds = {}
  Facts = {f1}
  MaxHint = 2
  MaxLog = 0
  Faults = {"crash"}
  Telegram = TRUE
SPECIFICATION Spec
SYMMETRY CallerSymmetry
CHECK_DEADLOCK FALSE
INVARIANT HintToldFirst
