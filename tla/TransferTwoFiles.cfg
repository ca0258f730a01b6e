SPECIFICATION TSpec
CONSTANTS
  Names = {"a", "b"}
  Versions <- EditedAndOther
  NameOf <- MCNameOf
  Blocks <- MCBlocks
  MaxBlocks = 2
  FileId <- MCFileId
  Suffixed <- MCSuffixed
  MaxSuffix = 2
  PartOf <- MCPartOf
  MaxFcb = 4
  MaxPart = 0
  Callbacks = {"null"}
  NoCb = "null"
  Dirs = {"./"}
  Cwd = "./"
  Existing = {}
  Calls = {"stop", "fini"}
  MidTransfer = {}
  IoFaults = {}
  Nil = Nil
  Junk = Junk
  Paths = {"x/a", "z/b"}
  BaseName <- MCBaseName
  Duplicated = {"BLOCK"}
  MaxHello = 2
  MaxEdits = 1
INVARIANTS
  PartInOrder
  OneCopyPerHello
  SenderKnowsOpenFiles
  NothingMixed
CHECK_DEADLOCK FALSE
