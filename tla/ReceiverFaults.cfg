SPECIFICATION CbSpec
CONSTANTS
  Names = {"a", "b"}
  Versions <- ThreeAndOne
  NameOf <- MCNameOf
  Blocks <- MCBlocks
  MaxBlocks = 3
  FileId <- ZeroFileId
  Suffixed <- MCSuffixed
  MaxSuffix = 1
  PartOf <- MCPartOf
  MaxFcb = 3
  MaxPart = 2
  Callbacks = {"null", "f"}
  NoCb = "null"
  Dirs = {"./"}
  Cwd = "./"
  Existing = {}
  Calls = {"register", "default", "unregister", "stop", "crash"}
  MidTransfer = {}
  IoFaults = {"write", "append", "rename", "hash", "remove"}
  Nil = Nil
  Junk = Junk
  OwnFile = FALSE
INVARIANTS
  PartInOrder
  FcbRegistered
PROPERTIES
  SavedIsKept
  KeepsCollected
  AsOneStep
CHECK_DEADLOCK FALSE
