\* An older and a newer web process, a newer importer and the worker start, collide, die and are
\* restarted on a fresh file or on one a release left at version 2, with a backup and a restore.
CONSTANTS
  None = None
  old = old
  new = new
  imp = imp
  wrk = wrk
  Processes = {old, new, imp, wrk}
  Role <- Roles
  Knows <- Releases
  Alters <- AddColumns
  Deployed = {0, 2}
  MaxCrashes = 2
  MaxRestores = 1
SPECIFICATION FairSpec
INVARIANT MarkersTellTheSchema
INVARIANT VersionsInOrder
INVARIANT UpIsMigrated
PROPERTY NewestServes
