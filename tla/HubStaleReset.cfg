SPECIFICATION Spec
CONSTANTS
  Rescan = TRUE
  BssCleared = TRUE
  PowerSwitched = FALSE
  MaxTries = 2
  Polls = 2
  MaxDevice = 3
  MaxEvents = 3
INVARIANT ErrorMeansFailure
CHECK_DEADLOCK FALSE
