SPECIFICATION Spec
CONSTANTS
  Files = {f1}
  Instances = {i1, i2}
  None = None
  CommitWindow = 1
  AttemptLease = 1
  RetryBaseDelay = 1
  RetryMaxDelay = 2
  ClaimBatchSize = 1
  MaxDisturbances = 4
SYMMETRY InstanceSymmetry
INVARIANTS TypeOK PublishedIntact LockShieldsWrite
CHECK_DEADLOCK FALSE
