\* Two problems and two skills, one the prerequisite of the other; three attempts here or in
\* the tracker's log, far enough apart to be evidence of retention, and a state file.
CONSTANTS
  None = None
  b = b
  t = t
  base = base
  top = top
  Problems = {b, t}
  Skills = {base, top}
  Core <- CoreOf
  Other <- SupportOf
  Prerequisites <- NeedsBase
  Reports <- SomeReports
  Imported <- LoggedByTracker
  States <- StateFiles
  Sleeps = {3}
  MaxAttempts = 3
  MaxDay = 3
SPECIFICATION Spec
CHECK_DEADLOCK FALSE
INVARIANT ReportedFailuresCount
INVARIANT MemoryFollowsEvidence
PROPERTY ReadinessFollowsEvidence
