SPECIFICATION Spec
CONSTANTS
  Names = {"a"}
  Versions <- OneFile
  NameOf <- MCNameOf
  Blocks <- MCBlocks
  MaxBlocks = 3
  FileId <- MCFileId
  Suffixed <- MCSuffixed
  MaxSuffix = 1
  PartOf <- MCPartOf
  MaxFcb = 3
  MaxPart = 2
  Callbacks = {"null", "f"}
  NoCb = "null"
  Dirs = {"./"}
  Cwd = "./"
  Existing = {}
  Calls = {}
  MidTransfer = {}
  IoFaults = {}
  Nil = Nil
  Junk = Junk
PROPERTIES
  HelloIsAcked
CHECK_DEADLOCK FALSE
