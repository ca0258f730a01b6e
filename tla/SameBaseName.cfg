SPECIFICATION TSpec
CONSTANTS
  Names = {"a"}
  Versions <- SameName
  NameOf <- MCNameOf
  Blocks <- MCBlocks
  MaxBlocks = 2
  FileId <- MCFileId
  Suffixed <- MCSuffixed
  MaxSuffix = 1
  PartOf <- MCPartOf
  MaxFcb = 4
  MaxPart = 0
  Callbacks = {"null"}
  NoCb = "null"
  Dirs = {"./"}
  Cwd = "./"
  Existing = {}
  Calls = {}
  MidTransfer = {}
  IoFaults = {}
  Nil = Nil
  Junk = Junk
  Paths = {"x/a", "y/a"}
  BaseName <- MCBaseName
  Duplicated = {}
  MaxHello = 2
  MaxEdits = 0
INVARIANTS
  HashCheckPasses
CHECK_DEADLOCK FALSE
