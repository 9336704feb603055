SPECIFICATION Spec
CONSTANTS
  MaxIf = 2
  MaxEp = 2
  Numbers = {0, 3}
  Addresses = {1, 2}
  Sizes = {8, 64}
  MaxDesc = 6
INVARIANTS
  TypeOK
  InterfacesRight
  DefaultEndpoints
  MaxPacketRight
  SettingSelected
CHECK_DEADLOCK FALSE
