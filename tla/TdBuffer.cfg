SPECIFICATION Spec
CONSTANTS
  PageSize = 4
  Pages = 5
  WordPages = 8
  LengthLimit = 32
  MaxSize = 34
INVARIANTS TypeOK Reaches FailsOnlyIfTooLong LengthFits
CHECK_DEADLOCK FALSE
