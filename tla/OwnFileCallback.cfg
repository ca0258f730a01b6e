SPECIFICATION CbSpec
CONSTANTS
  Names = {"a", "b"}
  Versions <- ThreeAndOne
  NameOf <- MCNameOf
  Blocks <- MCBlocks
  MaxBlocks = 3
  FileId <- ZeroFileId
  Suffixed <- MCSuffixed
  MaxSuffix = 1
  PartOf <- MCPartOf
  MaxFcb = 3
  MaxPart = 2
  Callbacks = {"null", "f"}
  NoCb = "null"
  Dirs = {"./"}
  Cwd = "./"
  Existing = {}
  Calls = {"register", "default", "unregister", "stop"}
  MidTransfer = {}
  IoFaults = {}
  Nil = Nil
  Junk = Junk
  OwnFile = TRUE
PROPERTIES
  AsOneStep
CHECK_DEADLOCK FALSE
