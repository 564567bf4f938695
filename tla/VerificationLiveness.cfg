SPECIFICATION FairSpec
CONSTANTS
  Verifications = {v1}
  Agents = {a1}
  NoAgent = NoAgent
  MaxAgentSideAttempts = 2
  MaxConcurrentJobs = 1
  DiskMb = 1
  RequiredMb = 1
  Verdicts = {"tooSmall", "setup", "rejected", "diskLimit"}
  Schedules = {"off"}
  MaxBackups = 1
  MaxDisturbances = 2
PROPERTIES EveryRunEnds
CHECK_DEADLOCK FALSE
