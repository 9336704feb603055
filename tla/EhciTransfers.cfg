SPECIFICATION Spec
CONSTANTS
  MaxLen = 2
  FitLen = 2
  Tries = 2
  Calls <- TransferCalls
  Faults <- NoFaults
INVARIANTS
  TypeOK
  StatusFaithful
  ToggleAgrees
  BulkLengthExact
