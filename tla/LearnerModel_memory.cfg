\* MemoryIsOfTheLastRow, which the code does not ensure.
CONSTANTS
  None = None
  b = b
  t = t
  base = base
  top = top
  Problems = {b, t}
  Skills = {base, top}
  Core <- CoreOf
  Other <- SupportOf
  Prerequisites <- NeedsBase
  Reports <- SomeReports
  Imported <- LoggedByTracker
  States <- StateFiles
  Sleeps = {3}
  MaxAttempts = 3
  MaxDay = 6
SPECIFICATION Spec
CHECK_DEADLOCK FALSE
INVARIANT MemoryIsOfTheLastRow
