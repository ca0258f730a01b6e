SPECIFICATION FairSpec
CONSTANTS
  Names = {"a"}
  Versions <- ThreeBlocks
  NameOf <- MCNameOf
  Blocks <- MCBlocks
  MaxBlocks = 3
  FileId <- MCFileId
  Suffixed <- MCSuffixed
  MaxSuffix = 2
  PartOf <- MCPartOf
  MaxFcb = 4
  MaxPart = 0
  Callbacks = {"null"}
  NoCb = "null"
  Dirs = {"./"}
  Cwd = "./"
  Existing = {}
  Calls = {}
  MidTransfer = {}
  IoFaults = {}
  Nil = Nil
  Junk = Junk
  Paths = {"x/a"}
  BaseName <- MCBaseName
  Duplicated = {"BLOCK", "GIVEME", "ACK"}
  MaxHello = 2
  MaxEdits = 0
PROPERTIES
  OpenedIsSaved
CHECK_DEADLOCK FALSE
