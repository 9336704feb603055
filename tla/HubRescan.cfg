SPECIFICATION Spec
CONSTANTS
  Rescan = TRUE
  BssCleared = FALSE
  PowerSwitched = FALSE
  MaxTries = 2
  Polls = 2
  MaxDevice = 3
  MaxEvents = 4
INVARIANT SpeedRight
CHECK_DEADLOCK FALSE
