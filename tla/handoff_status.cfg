CONSTANTS
  PoolGrowth = 1
  FirmwareGrowth = 0
  MaxDescriptors = 4
  MaxChanges = 3
  KeyWhenTooSmall = TRUE
  PartialShutdown = FALSE
  PoolMayFail = TRUE
  PausesOnFailure = TRUE
SPECIFICATION Spec
INVARIANT FailureIsReported
CHECK_DEADLOCK FALSE
