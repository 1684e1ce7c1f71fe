CONSTANTS
  NumPages = 5
  PageWords = 4
  WordSize = 32
  ServicesMayFail = FALSE
  Images <- BasedFiles
SPECIFICATION Spec
INVARIANT CopiesStayInside
CHECK_DEADLOCK FALSE
