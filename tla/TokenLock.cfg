SPECIFICATION Spec
CONSTANTS
  c1 = c1
  c2 = c2
  Calls <- MCCalls
  None = None
  Lease = 5
  RenewEvery = 2
  MaxDelay = 1
  MaxLoss = 1
INVARIANTS
  TypeOK
  MutualExclusion
  LostLockIsNoticed
  LossIsReported
PROPERTIES
  WaitersGetIn
CHECK_DEADLOCK FALSE
