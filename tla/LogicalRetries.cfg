SPECIFICATION Spec
CONSTANTS
  Databases = {d1}
  Storages = {s1}
  Enabled = {d1}
  Backups = {b1, b2, b3}
  Restores = {}
  None = None
  MaxFailedTriesCount = 2
  MaxSlots = 0
  MaxDisturbances = 2
SYMMETRY BackupSymmetry
INVARIANTS RetriesBounded
CHECK_DEADLOCK FALSE
