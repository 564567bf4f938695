SPECIFICATION FairSpec
CONSTANTS
    N = 2
    Archived = 1
    MaxUploads = 2
    Timeout = 1
    Grace = 1
    HighWatermark = 2
    MaxFaults = 1
INVARIANTS
    NoSegmentLost
