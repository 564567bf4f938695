SPECIFICATION FairSpec
CONSTANTS
    N = 3
    Archived = 0
    MaxUploads = 2
    Timeout = 1
    Grace = 1
    HighWatermark = 2
    MaxFaults = 2
INVARIANTS
    TypeOK
    UploadsWithinLimit
    ArchivedIsFinal
    GapAlertsTrue
PROPERTIES
    LossOnlyByTakeover
    QueueDrains
