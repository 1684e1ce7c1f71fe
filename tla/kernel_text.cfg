CONSTANTS
  Letters <- TwoLetters
  Texts <- AllTexts
  BootPaths <- SomeBootPaths
  Kernels <- SomeKernels
  ServicesMayFail = TRUE
SPECIFICATION Spec
INVARIANTS TypeOK WrittenLinesAreRead TxtIsBesideLoader OnlyTheMarkIsSilent PoolIsReturned
CHECK_DEADLOCK FALSE
