SPECIFICATION FairSpec
CONSTANTS
  Databases = {d1}
  Storages = {s1}
  Enabled = {d1}
  Backups = {b1}
  Restores = {r1}
  None = None
  MaxFailedTriesCount = 2
  MaxSlots = 1
  MaxDisturbances = 3
PROPERTIES StartedWorkEnds
CHECK_DEADLOCK FALSE
