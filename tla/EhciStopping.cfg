SPECIFICATION Spec
CONSTANTS
  MaxLen = 2
  FitLen = 1
  Tries = 2
  Calls <- MixedCalls
  Faults <- Stopping
PROPERTIES
  MemoryDiscipline
