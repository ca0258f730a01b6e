SPECIFICATION WSpec
CONSTANTS
  Byte = 3
  Blocksizes = {2, 3}
  MidTransfer = FALSE
  Cap = 32
  Sizes <- SmallSizes
  Names <- MCNames
  FileId <- MCFileId
  HashOf <- MCHashOf
  Keys = {0, 5}
INVARIANTS
  Understood
  FileArrives
CHECK_DEADLOCK FALSE
