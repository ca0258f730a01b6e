SPECIFICATION HSpec
CONSTANTS
  Tables = {"files", "senderfiles"}
  Keys = {"a", "b"}
  Vals = {"v", "w"}
  Hash <- HashOf
  MinCap = 1
  Setups = {1, 3}
  Reserves = {15}
  AnySwap = FALSE
  MaxCap = 4
INVARIANTS
  HTypeOK
  Filed
  SizeCounts
PROPERTIES
  IsMap
CHECK_DEADLOCK FALSE
