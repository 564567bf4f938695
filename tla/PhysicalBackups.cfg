SPECIFICATION MCSpec
CONSTANTS
    MaxBackups = 4
    Segments = 3
    SegmentSize = 2
    Stride = 1
    MaxTries = 2
    Policies = {"CHAINS", "FULL_BACKUPS", "CHAINS_AND_FULL_BACKUPS"}
    KeepChains = 1
    KeepFulls = 1
    WalBudget = 1
    Grace = 1
    MaxTime = 2
    MaxEvents = 2
INVARIANTS
    TypeOK
    WalKept
    RestoreSetIsLineage
    RequestKept
PROPERTIES
    OutcomeFinal
    ActiveReachKept
CHECK_DEADLOCK FALSE
