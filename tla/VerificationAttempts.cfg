SPECIFICATION Spec
CONSTANTS
  Verifications = {v1}
  Agents = {a1, a2}
  NoAgent = NoAgent
  MaxAgentSideAttempts = 2
  MaxConcurrentJobs = 2
  DiskMb = 1
  RequiredMb = 1
  Verdicts = {"ok", "setup"}
  Schedules = {"off"}
  MaxBackups = 1
  MaxDisturbances = 1
SYMMETRY Symmetry
INVARIANTS TypeOK EachAttemptHandedOutOnce BackupStatusBacked
PROPERTIES OutcomeStays
CHECK_DEADLOCK FALSE
