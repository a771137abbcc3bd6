\* The command takes effect and its caller times out.
CONSTANTS
  None = None
  c1 = c1
  c2 = c2
  s1 = s1
  e1 = e1
  f1 = f1
  f2 = f2
  Callers = {c1, c2}
  Sessions = {s1}
  EventIds = {e1}
  Facts = {f1}
  MaxHint = 0
  MaxLog = 2
  Faults = {"timeout"}
  Telegram = FALSE
SPECIFICATION Spec
CHECK_DEADLOCK FALSE
INVARIANT DroppedClaimDidNothing
