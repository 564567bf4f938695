SPECIFICATION FairSpec
CONSTANTS
  Files = {f1}
  Instances = {i1}
  None = None
  CommitWindow = 1
  AttemptLease = 2
  RetryBaseDelay = 2
  RetryMaxDelay = 3
  ClaimBatchSize = 1
  MaxDisturbances = 4
INVARIANTS NoOrphan NoDeleteDuringWrite
PROPERTIES BackoffKept KeepsFilePromise EventuallyRemoved 
CHECK_DEADLOCK FALSE
