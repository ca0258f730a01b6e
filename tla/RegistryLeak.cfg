SPECIFICATION Spec
CONSTANTS
  Names = {"a", "b"}
  Versions <- TwoFiles
  NameOf <- MCNameOf
  Blocks <- MCBlocks
  MaxBlocks = 2
  FileId <- MCFileId
  Suffixed <- MCSuffixed
  MaxSuffix = 1
  PartOf <- MCPartOf
  MaxFcb = 2
  MaxPart = 2
  Callbacks = {"null", "f"}
  NoCb = "null"
  Dirs = {"./"}
  Cwd = "./"
  Existing = {}
  Calls = {}
  MidTransfer = {}
  IoFaults = {}
  Nil = Nil
  Junk = Junk
INVARIANTS
  RegistryHasRoom
CHECK_DEADLOCK FALSE
