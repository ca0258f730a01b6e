SPECIFICATION WSpec
CONSTANTS
  Byte = 3
  Blocksizes = {16}
  MidTransfer = FALSE
  Cap = 32
  Sizes <- LargeSizes
  Names <- MCNames
  FileId <- MCFileId
  HashOf <- MCHashOf
  Keys = {0, 5}
INVARIANTS
  FileArrives
CHECK_DEADLOCK FALSE
