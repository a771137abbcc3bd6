\* OuttalentOutranks, which the code does not ensure.
CONSTANTS
  None = None
  Slugs = {"x", "y", "y2"}
  Ids = {1, 2}
  Patterns = {"paths", "lowlink"}
  IdOf <- IdOfSlug
  Plan <- StudyPlan
  Outtalent <- FormalItems
  Curated <- CuratedSkills
  Starter <- StarterPack
  Trackers <- FewTrackers
  MaxRuns = 5
  MaxEdits = 2
SPECIFICATION Spec
CHECK_DEADLOCK FALSE
INVARIANT OuttalentOutranks
