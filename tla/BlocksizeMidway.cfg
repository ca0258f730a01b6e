SPECIFICATION WSpec
CONSTANTS
  Byte = 3
  Blocksizes = {2, 3}
  MidTransfer = TRUE
  Cap = 32
  Sizes <- MidwaySizes
  Names <- MCNames
  FileId <- MCFileId
  HashOf <- MCHashOf
  Keys = {0, 5}
INVARIANTS
  FileArrives
CHECK_DEADLOCK FALSE
