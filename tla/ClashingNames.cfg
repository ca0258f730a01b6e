SPECIFICATION Spec
CONSTANTS
  Names = {"a", "a_01"}
  Versions <- ClashingFiles
  NameOf <- MCNameOf
  Blocks <- MCBlocks
  MaxBlocks = 2
  FileId <- MCFileId
  Suffixed <- MCSuffixed
  MaxSuffix = 2
  PartOf <- MCPartOf
  MaxFcb = 3
  MaxPart = 2
  Callbacks = {"null"}
  NoCb = "null"
  Dirs = {"./"}
  Cwd = "./"
  Existing = {"a"}
  Calls = {}
  MidTransfer = {}
  IoFaults = {}
  Nil = Nil
  Junk = Junk
INVARIANTS
  HashCheckPasses
CHECK_DEADLOCK FALSE
