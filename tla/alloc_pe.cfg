CONSTANTS
  NumPages = 5
  KernelPages = 2
  WordSize = 32
  MapIsSorted = FALSE
  StaleReads <- SomeReads
  MaxLeaks = 2
  PoolMayFail = TRUE
  Kind = "PE"
  MemoryCheck = TRUE
  FourGB = 6
  ByPageStart = 2
  ServicesMayFail = TRUE
  MaxDrift = 1
  InitialFree <- AnyFree
  InitialContents <- CleanDirtyOrOurs
SPECIFICATION Spec
INVARIANTS TypeOK OneRange OutcomeIsTrue
PROPERTY ImplementsKernelMemory
CHECK_DEADLOCK FALSE
