CONSTANTS
  NumHandles = 1
  MaxMode <- OneDevice
  Mode1024 <- One1024
  InitialModes <- LastMode
  IsApple = FALSE
  TimeoutSeconds = 2
  KeyCodes <- SomeKeys
  MaxTyped = 4
  SpuriousWakeups = TRUE
  ServicesMayFail = TRUE
  CountdownSeconds = 2
  Builds = {TRUE, FALSE}
SPECIFICATION FairSpec
INVARIANTS TypeOK KernelHasGraphics
PROPERTIES PauseIsAnswered NoKeyFromCountdown TimersEnd UnattendedBoot
CHECK_DEADLOCK FALSE
