CONSTANTS
  NumPages = 5
  PageWords = 4
  WordSize = 32
  ServicesMayFail = TRUE
  Images <- LinkedFiles
SPECIFICATION Spec
INVARIANTS TypeOK ImageIsExact RefusedIfBad PagesFollowOutcome
CHECK_DEADLOCK FALSE
