SPECIFICATION Spec
CONSTANTS
  MaxLen = 1
  FitLen = 1
  Tries = 2
  Calls <- ShortCalls
  Faults <- NoFaults
INVARIANTS
  OkMeansCompleted
