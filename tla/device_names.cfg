CONSTANTS
  NodeLength <- Lengths
  Machines <- SomeMachines
  ServicesMayFail = TRUE
SPECIFICATION Spec
INVARIANTS TypeOK NamesBelongTogether StrictNamesAreTheParents EveryDeviceIsLabelled
PROPERTY ParentIsNotMissed
CHECK_DEADLOCK FALSE
