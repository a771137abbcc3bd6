\* BackupRestores, which the code does not ensure.
CONSTANTS
  None = None
  old = old
  new = new
  imp = imp
  wrk = wrk
  Processes = {old, new, imp, wrk}
  Role <- Roles
  Knows <- Releases
  Alters <- AddColumns
  Deployed = {0, 2}
  MaxCrashes = 2
  MaxRestores = 1
SPECIFICATION FairSpec
INVARIANT BackupRestores
