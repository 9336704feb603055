SPECIFICATION Spec
CONSTANTS
  Rescan = FALSE
  BssCleared = TRUE
  PowerSwitched = TRUE
  MaxTries = 2
  Polls = 2
  MaxDevice = 2
  MaxEvents = 4
INVARIANTS TypeOK ErrorMeansFailure TableNeverFull
PROPERTY ScanReturns
CHECK_DEADLOCK FALSE
