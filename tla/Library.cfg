SPECIFICATION Spec
CONSTANTS
  W = 8
  Limit = 16
  Cells = 10
  ShortBits = 7
  IntBits = 12
  NumBits = 20
  Bytes = 256
  WordBytes = 2
  MaxAsk = 8
  Alphabet = {1, 127, 128, 255}
  MaxText = 2
  Symbols = {1, 2}
  MaxLine = 5
  Delimiters = {8, 9}
  CodeUnits <- MCUnits
  MaxUnits = 2
  Schedules <- MCSchedules
  Sizes = {1, 2, 3, 4}
  Divisors = {10, 129, 255}
  Heads = {0, 1, 9, 6000}
INVARIANTS
  DivisionExact
  WideDivisionExact
  ShiftExact
  DecimalExact
  FieldExact
  ReadsBack
  MovesExact
  SearchExact
  CompareOrders
  TokensExact
  StringFits
CHECK_DEADLOCK FALSE
