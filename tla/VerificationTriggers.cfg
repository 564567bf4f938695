SPECIFICATION Spec
CONSTANTS
  Verifications = {v1, v2}
  Agents = {a1}
  NoAgent = NoAgent
  MaxAgentSideAttempts = 1
  MaxConcurrentJobs = 1
  DiskMb = 1
  RequiredMb = 1
  Verdicts = {}
  Schedules = {"off", "afterBackup", "interval"}
  MaxBackups = 1
  MaxDisturbances = 1
SYMMETRY Symmetry
INVARIANTS OneRunPerTrigger
CHECK_DEADLOCK FALSE
