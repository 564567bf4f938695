SPECIFICATION Spec
CONSTANTS
  Databases = {d1}
  Storages = {s1, s2}
  Enabled = {}
  Backups = {b1, b2}
  Restores = {r1}
  None = None
  MaxFailedTriesCount = 0
  MaxSlots = 0
  MaxDisturbances = 3
SYMMETRY Symmetry
INVARIANTS TypeOK CompletedIffKept RestoreSourceStays RunOwnsItsRow HistoryInConfiguredStorage
PROPERTIES KeepsBackupPromise
CHECK_DEADLOCK FALSE
