CONSTANTS
  NumHandles = 3
  MaxMode <- ThreeDevices
  Mode1024 <- Three1024
  InitialModes <- LastModes
  IsApple = TRUE
  TimeoutSeconds = 2
  KeyCodes <- SomeKeys
  MaxTyped = 3
  SpuriousWakeups = TRUE
  Callers = {}
  ServicesMayFail = TRUE
SPECIFICATION FairSpec
INVARIANTS TypeOK ModeIsOffered EntriesAreReal ArrayIsComplete PoolIsReturned
PROPERTIES MenusAskAnew UnattendedSetup
CHECK_DEADLOCK FALSE
