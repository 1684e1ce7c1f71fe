CONSTANTS
  Letters <- TwoLetters
  Texts <- ErrantSpaces
  BootPaths <- OneBootPath
  Kernels <- SomeKernels
  ServicesMayFail = FALSE
SPECIFICATION Spec
INVARIANT CopiesFit
CHECK_DEADLOCK FALSE
