CONSTANTS
  PoolGrowth = 1
  FirmwareGrowth = 0
  MaxDescriptors = 4
  MaxChanges = 3
  KeyWhenTooSmall = TRUE
  PartialShutdown = FALSE
  PoolMayFail = TRUE
  PausesOnFailure = TRUE
SPECIFICATION FairSpec
INVARIANTS TypeOK MapIsHandedOver MapIsLive NoServiceAfterExit
PROPERTIES OnlyFirmwareSpoilsTheKey HandoffSucceeds
CHECK_DEADLOCK FALSE
