SPECIFICATION FairSpec
CONSTANTS
  MaxLen = 1
  FitLen = 1
  Tries = 2
  Calls <- ShortCalls
  Faults <- AllFaults
INVARIANTS
  Quiescent
  ReinitRecovers
PROPERTIES
  CallReturns
