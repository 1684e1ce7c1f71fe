CONSTANTS
  NumPages = 7
  KernelPages = 2
  WordSize = 32
  MapIsSorted = TRUE
  StaleReads = {}
  MaxLeaks = 4
  PoolMayFail = FALSE
  Kind = "ELF"
  MemoryCheck = TRUE
  FourGB = 10
  ByPageStart = 6
  ServicesMayFail = FALSE
  MaxDrift = 0
  InitialFree <- AnyFree
  InitialContents <- ZeroOrStuck
SPECIFICATION FairSpec
INVARIANT KnownBadAvoided
PROPERTIES FindsCleanRange EasySearchAscends
CHECK_DEADLOCK FALSE
