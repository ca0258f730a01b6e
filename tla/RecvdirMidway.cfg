SPECIFICATION Spec
CONSTANTS
  Names = {"a"}
  Versions <- OneFile
  NameOf <- MCNameOf
  Blocks <- MCBlocks
  MaxBlocks = 3
  FileId <- MCFileId
  Suffixed <- MCSuffixed
  MaxSuffix = 2
  PartOf <- MCPartOf
  MaxFcb = 3
  MaxPart = 2
  Callbacks = {"null"}
  NoCb = "null"
  Dirs = {"./", "in/"}
  Cwd = "./"
  Existing = {"a", "a.part"}
  Calls = {"set_recvdir"}
  MidTransfer = {"set_recvdir"}
  IoFaults = {}
  Nil = Nil
  Junk = Junk
PROPERTIES
  SavedIsKept
CHECK_DEADLOCK FALSE
