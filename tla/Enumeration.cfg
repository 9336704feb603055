SPECIFICATION Spec
CONSTANTS
  MaxDevice = 3
  Sizes = {8, 64}
  FakedSuccess = FALSE
  MaxReplugs = 3
INVARIANTS
  TypeOK
  RoutedRight
  ReachesDevice
  AddressUnambiguous
  PacketSizeRight
  FoundAgrees
PROPERTIES
  LedInOrder
CHECK_DEADLOCK FALSE
